---- MODULE Spec2Model ----
(***************************************************************************)
(* A model of TeslaJS (teslajs.js): the identifier decoder, the clamping   *)
(* helpers, the request gateway with its promise variants, the command     *)
(* wrappers, authentication (refreshToken, logout), the base-URI setters,  *)
(* startStreaming with its data events, and SampleFramework.run            *)
(* (samples/sampleFramework.js).                                           *)
(*                                                                         *)
(* JavaScript values are encoded as records with a tag t:                  *)
(*   numbers    [t |-> "number", n |-> i]     NaN  [t |-> "NaN", n |-> 0]  *)
(*   undefined  [t |-> "undefined", ...]      null [t |-> "null", ...]     *)
(*   strings    [t |-> "string", s |-> <<"c1", "c2", ...>>] when the code  *)
(*              indexes them, plain TLA+ strings otherwise.                *)
(* A call that may throw returns [threw |-> BOOLEAN, value |-> v].         *)
(***************************************************************************)
EXTENDS Integers, Sequences, FiniteSets, TLC

VARIABLES
    ret,            \* the last call of a pure exported function: op, args, result
    portalBaseURI,  \* var portalBaseURI (module-wide configuration)
    calls,          \* the calls of the request gateway made so far, with their arguments
    requests,       \* requests[i]: the request call i handed to the transport
    responses,      \* responses[i]: the transport outcome delivered for call i, or NoResponse
    cbLog,          \* cbLog[i]: the invocations (err, body) of call i's callback, in order
    raised,         \* raised[i]: the exception that escaped call i's code, or NoException
    options,        \* the caller's options bag (the fields the library writes)
    sent,           \* sent[i]: the number of requests call i handed to the transport
    promises,       \* promises[i]: the promise an Async form returned for call i, or NoPromise
    streamingBaseURI,   \* var streamingBaseURI (module-wide configuration)
    uriArgs,        \* the argument of the latest call of each base-URI setter, or NotCalled
    streams,        \* streams[i]: the data sink, inbound chunks and sink invocations of
                    \* the startStreaming call i
    samples         \* samples[i]: the SampleFramework whose run made call i: its options
                    \* object and the invocations of main

\* the module-wide configuration
configVars == <<portalBaseURI, streamingBaseURI, uriArgs>>

vars == <<ret, portalBaseURI, calls, requests, responses, cbLog, raised, options, sent,
          promises, streamingBaseURI, uriArgs, streams, samples>>

gatewayVars == <<portalBaseURI, calls, requests, responses, cbLog, raised, options, sent,
                 promises, streamingBaseURI, uriArgs, streams, samples>>

-----------------------------------------------------------------------------
(* JavaScript numbers and the comparisons the code uses                    *)

Num(n) == [t |-> "number", n |-> n]

NaN == [t |-> "NaN", n |-> 0]

Undefined == [t |-> "undefined", n |-> 0]

\* a < b on JS values: false as soon as an operand is NaN or converts to NaN
JsLt(a, b) == a.t = "number" /\ b.t = "number" /\ a.n < b.n

JsGt(a, b) == a.t = "number" /\ b.t = "number" /\ a.n > b.n

\* a + b and a - b on JS numbers: NaN is absorbing
JsAdd(a, b) == IF a.t = "number" /\ b.t = "number" THEN Num(a.n + b.n) ELSE NaN

JsSub(a, b) == IF a.t = "number" /\ b.t = "number" THEN Num(a.n - b.n) ELSE NaN

\* !x for a JS number or undefined: 0, NaN and undefined are falsy
JsNot(x) == x.t # "number" \/ x.n = 0

-----------------------------------------------------------------------------
(* clamp                                                                   *)

\* mutant of clamp: the upper bound is not applied
clampNoUpper(value, min, max) ==
    IF JsLt(value, min) THEN min ELSE value

clamp(value, min, max) ==
    LET v1 == IF JsLt(value, min) THEN min ELSE value
    IN  IF JsGt(v1, max) THEN max ELSE v1

-----------------------------------------------------------------------------
(* Strings the code indexes: sequences of one-character strings            *)

Str(s) == [t |-> "string", s |-> s]

UndefinedStr == [t |-> "undefined", s |-> <<>>]

\* the UTF-16 code unit of the characters the model uses
CharCode(c) ==
    CASE c = "0" -> 48 [] c = "1" -> 49 [] c = "2" -> 50 [] c = "3" -> 51
      [] c = "4" -> 52 [] c = "5" -> 53 [] c = "9" -> 57
      [] c = "A" -> 65 [] c = "B" -> 66 [] c = "C" -> 67 [] c = "E" -> 69
      [] c = "F" -> 70 [] c = "J" -> 74 [] c = "L" -> 76 [] c = "S" -> 83
      [] c = "X" -> 88 [] c = "Y" -> 89

\* String.prototype.charAt(i): the empty string when i is out of range
charAt(s, i) == IF i + 1 \in 1..Len(s) THEN s[i + 1] ELSE ""

\* String.prototype.charCodeAt(i): NaN when i is out of range
charCodeAt(s, i) == IF i + 1 \in 1..Len(s) THEN Num(CharCode(s[i + 1])) ELSE NaN

-----------------------------------------------------------------------------
(* Results of calls that may throw                                         *)

Return(v) == [threw |-> FALSE, value |-> v]

Throw(e) == [threw |-> TRUE, value |-> e]

-----------------------------------------------------------------------------
(* Vehicle JSON: null, undefined, or an object with the fields the code    *)
(* reads (vin, option_codes), each a string or undefined (absent)          *)

NullVehicle == [t |-> "null", vin |-> UndefinedStr, option_codes |-> UndefinedStr]

UndefinedVehicle == [t |-> "undefined", vin |-> UndefinedStr, option_codes |-> UndefinedStr]

VehicleObject(vin, option_codes) == [t |-> "object", vin |-> vin, option_codes |-> option_codes]

-----------------------------------------------------------------------------
(* vinDecode, getModel                                                     *)

vinDecodeDefault == [carType |-> "Model S", awd |-> FALSE, year |-> Num(2012)]

\* mutants of vinDecodeFields: the case "Y" lost, "B" lost, the year read at position 10
vinDecodeFieldsNoY(vin) ==
    LET result == vinDecodeDefault
        year  == JsSub(JsAdd(Num(2010), charCodeAt(vin, 9)), charCodeAt(<<"A">>, 0))
        model == charAt(vin, 3)
        carType == CASE model = "S" -> "Model S"
                     [] model = "3" -> "Model 3"
                     [] model = "X" -> "Model X"
                     [] OTHER -> result.carType
        awd == IF \/ charAt(vin, 7) = "2"
                  \/ charAt(vin, 7) = "4"
                  \/ charAt(vin, 7) = "B"
               THEN TRUE ELSE result.awd
    IN  [carType |-> carType, awd |-> awd, year |-> year]

vinDecodeFieldsNoB(vin) ==
    LET result == vinDecodeDefault
        year  == JsSub(JsAdd(Num(2010), charCodeAt(vin, 9)), charCodeAt(<<"A">>, 0))
        model == charAt(vin, 3)
        carType == CASE model = "S" -> "Model S"
                     [] model = "3" -> "Model 3"
                     [] model = "X" -> "Model X"
                     [] model = "Y" -> "Model Y"
                     [] OTHER -> result.carType
        awd == IF \/ charAt(vin, 7) = "2"
                  \/ charAt(vin, 7) = "4"
               THEN TRUE ELSE result.awd
    IN  [carType |-> carType, awd |-> awd, year |-> year]

vinDecodeFieldsYearAt10(vin) ==
    LET result == vinDecodeDefault
        year  == JsSub(JsAdd(Num(2010), charCodeAt(vin, 10)), charCodeAt(<<"A">>, 0))
        model == charAt(vin, 3)
        carType == CASE model = "S" -> "Model S"
                     [] model = "3" -> "Model 3"
                     [] model = "X" -> "Model X"
                     [] model = "Y" -> "Model Y"
                     [] OTHER -> result.carType
        awd == IF \/ charAt(vin, 7) = "2"
                  \/ charAt(vin, 7) = "4"
                  \/ charAt(vin, 7) = "B"
               THEN TRUE ELSE result.awd
    IN  [carType |-> carType, awd |-> awd, year |-> year]

\* the body of vinDecode after the guard of line 233
vinDecodeFields(vin) ==
    LET result == vinDecodeDefault
        year  == JsSub(JsAdd(Num(2010), charCodeAt(vin, 9)), charCodeAt(<<"A">>, 0))
        model == charAt(vin, 3)
        carType == CASE model = "S" -> "Model S"
                     [] model = "3" -> "Model 3"
                     [] model = "X" -> "Model X"
                     [] model = "Y" -> "Model Y"
                     [] OTHER -> result.carType
        awd == IF \/ charAt(vin, 7) = "2"
                  \/ charAt(vin, 7) = "4"
                  \/ charAt(vin, 7) = "B"
               THEN TRUE ELSE result.awd
    IN  [carType |-> carType, awd |-> awd, year |-> year]

\* mutant of vinDecode: vehicle.vin is read without the test of vehicle
vinDecodeNoGuard(vehicle) ==
    IF vehicle.t \in {"null", "undefined"} THEN Throw("TypeError")
    ELSE IF vehicle.vin.t = "undefined"
         THEN Return(vinDecodeDefault)
         ELSE Return(vinDecodeFields(vehicle.vin.s))

vinDecode(vehicle) ==
    IF vehicle.t \in {"null", "undefined"} THEN Return(vinDecodeDefault)   \* !vehicle
    ELSE IF vehicle.vin.t = "undefined" \/ vehicle.vin.s = <<>>            \* !vehicle.vin
         THEN Return(vinDecodeDefault)
         ELSE Return(vinDecodeFields(vehicle.vin.s))

getModel(vehicle) ==
    LET result == vinDecode(vehicle)
    IN  IF result.threw THEN result ELSE Return(result.value.carType)

-----------------------------------------------------------------------------
(* getPaintColor                                                           *)

\* mutant of colors: the table lacks the last code of the regular expression
colorsWithoutPMTG ==
    << [code |-> <<"P","B","C","W">>, name |-> "white"],
       [code |-> <<"P","B","S","B">>, name |-> "black"],
       [code |-> <<"P","M","A","B">>, name |-> "metallic brown"],
       [code |-> <<"P","M","B","L">>, name |-> "metallic black"],
       [code |-> <<"P","M","M","B">>, name |-> "metallic blue"],
       [code |-> <<"P","M","M","R">>, name |-> "multi-coat red"],
       [code |-> <<"P","P","M","R">>, name |-> "multi-coat red"],
       [code |-> <<"P","M","N","G">>, name |-> "steel grey"],
       [code |-> <<"P","M","S","G">>, name |-> "metallic green"],
       [code |-> <<"P","M","S","S">>, name |-> "metallic silver"],
       [code |-> <<"P","P","S","B">>, name |-> "ocean blue"],
       [code |-> <<"P","P","S","R">>, name |-> "signature red"],
       [code |-> <<"P","P","S","W">>, name |-> "pearl white"],
       [code |-> <<"P","P","T","I">>, name |-> "titanium"] >>

\* var colors: the table of option code -> name, in source order
colors ==
    << [code |-> <<"P","B","C","W">>, name |-> "white"],
       [code |-> <<"P","B","S","B">>, name |-> "black"],
       [code |-> <<"P","M","A","B">>, name |-> "metallic brown"],
       [code |-> <<"P","M","B","L">>, name |-> "metallic black"],
       [code |-> <<"P","M","M","B">>, name |-> "metallic blue"],
       [code |-> <<"P","M","M","R">>, name |-> "multi-coat red"],
       [code |-> <<"P","P","M","R">>, name |-> "multi-coat red"],
       [code |-> <<"P","M","N","G">>, name |-> "steel grey"],
       [code |-> <<"P","M","S","G">>, name |-> "metallic green"],
       [code |-> <<"P","M","S","S">>, name |-> "metallic silver"],
       [code |-> <<"P","P","S","B">>, name |-> "ocean blue"],
       [code |-> <<"P","P","S","R">>, name |-> "signature red"],
       [code |-> <<"P","P","S","W">>, name |-> "pearl white"],
       [code |-> <<"P","P","T","I">>, name |-> "titanium"],
       [code |-> <<"P","M","T","G">>, name |-> "metallic grey"] >>

\* the alternatives of the regular expression of line 287, in order
paintRegex ==
    << <<"P","B","C","W">>, <<"P","B","S","B">>, <<"P","M","A","B">>,
       <<"P","M","B","L">>, <<"P","M","M","B">>, <<"P","M","M","R">>,
       <<"P","P","M","R">>, <<"P","M","N","G">>, <<"P","M","S","G">>,
       <<"P","M","S","S">>, <<"P","P","S","B">>, <<"P","P","S","R">>,
       <<"P","P","S","W">>, <<"P","P","T","I">>, <<"P","M","T","G">> >>

\* alternative k of the regular expression matches s at (1-based) position i
AltMatchesAt(s, i, k) ==
    /\ i + Len(paintRegex[k]) - 1 <= Len(s)
    /\ SubSeq(s, i, i + Len(paintRegex[k]) - 1) = paintRegex[k]

MatchesAt(s, i) == \E k \in 1..Len(paintRegex) : AltMatchesAt(s, i, k)

\* mutant of match: the rightmost match instead of the leftmost
matchRightmost(s) ==
    IF \E i \in 1..Len(s) : MatchesAt(s, i)
    THEN LET i == CHOOSE j \in 1..Len(s) :
                      MatchesAt(s, j) /\ \A h \in (j + 1)..Len(s) : ~MatchesAt(s, h)
             k == CHOOSE a \in 1..Len(paintRegex) : AltMatchesAt(s, i, a)
         IN  [t |-> "array", s |-> paintRegex[k]]
    ELSE [t |-> "null", s |-> <<>>]

\* String.prototype.match with a non-global alternation: the leftmost position
\* that matches, and there the first alternative that matches; null if none
match(s) ==
    IF \E i \in 1..Len(s) : MatchesAt(s, i)
    THEN LET i == CHOOSE j \in 1..Len(s) :
                      MatchesAt(s, j) /\ \A h \in 1..(j - 1) : ~MatchesAt(s, h)
             k == CHOOSE a \in 1..Len(paintRegex) :
                      AltMatchesAt(s, i, a) /\ \A b \in 1..(a - 1) : ~AltMatchesAt(s, i, b)
         IN  [t |-> "array", s |-> paintRegex[k]]
    ELSE [t |-> "null", s |-> <<>>]

\* colors[paintColor] || "black": the key is the match array converted to a string
colorOf(paintColor) ==
    IF paintColor.t = "array" /\ \E e \in 1..Len(colors) : colors[e].code = paintColor.s
    THEN colors[CHOOSE e \in 1..Len(colors) : colors[e].code = paintColor.s].name
    ELSE "black"

getPaintColor(vehicle) ==
    IF vehicle.t \in {"null", "undefined"} THEN Throw("TypeError")          \* vehicle.option_codes
    ELSE IF vehicle.option_codes.t = "undefined" THEN Throw("TypeError")   \* undefined.match
         ELSE Return(colorOf(match(vehicle.option_codes.s)))

-----------------------------------------------------------------------------
(* Inputs of the pure functions                                            *)

MaxVinLen == 11

MaxClampArg == 6

MaxOptionTokens == 3

VinChars == {"0", "2", "3", "4", "5", "9", "A", "B", "L", "S", "X", "Y"}

\* a vin of len characters with c3, c7, c9 at the (0-indexed) positions 3, 7, 9
VinOf(c3, c7, c9, len) ==
    [i \in 1..len |-> CASE i = 1 -> "5" [] i = 2 -> "Y" [] i = 3 -> "J"
                        [] i = 4 -> c3 [] i = 8 -> c7 [] i = 10 -> c9
                        [] OTHER -> IF i % 2 = 1 THEN "E" ELSE "1"]

Vins == {VinOf(c3, c7, c9, len) : c3 \in VinChars, c7 \in VinChars, c9 \in VinChars,
                                  len \in 0..MaxVinLen}

VinVehicles ==
    {NullVehicle, UndefinedVehicle, VehicleObject(UndefinedStr, UndefinedStr)}
    \cup {VehicleObject(Str(v), UndefinedStr) : v \in Vins}

ClampValues == {Num(n) : n \in 0..MaxClampArg} \cup {NaN, Undefined}

ClampInputs ==
    {<<v, Num(lo), Num(hi)>> : v \in ClampValues, lo \in 0..MaxClampArg, hi \in 0..MaxClampArg}
    \cup {<<Num(v), Num(50), Num(100)>> : v \in {30, 50, 75, 100, 150}}
    \cup {<<Num(v), Num(15), Num(28)>> : v \in {10, 15, 20, 28, 30}}

OptionTokens ==
    { <<"P","P","S","W">>, <<"P","B","S","B">>, <<"P","M","T","G">>, <<"M","D","L","S">>,
      <<",">>, <<"P","P">>, <<"S","W">> }

RECURSIVE OptionStrings(_)
OptionStrings(n) ==
    IF n = 0 THEN {<< >>}
    ELSE LET prev == OptionStrings(n - 1)
         IN  prev \cup {p \o tok : p \in prev, tok \in OptionTokens}

PaintVehicles ==
    {NullVehicle, VehicleObject(UndefinedStr, UndefinedStr)}
    \cup {VehicleObject(UndefinedStr, Str(o)) : o \in OptionStrings(MaxOptionTokens)}

-----------------------------------------------------------------------------
(* Calls of the pure functions                                             *)

NoCall == [op |-> "none", args |-> << >>, val |-> Return(Undefined)]

vinDecodeCall ==
    /\ ret = NoCall
    /\ \E v \in VinVehicles :
          ret' = [op |-> "vinDecode", args |-> <<v>>, val |-> vinDecode(v)]
    /\ UNCHANGED gatewayVars

getModelCall ==
    /\ ret = NoCall
    /\ \E v \in VinVehicles :
          ret' = [op |-> "getModel", args |-> <<v>>, val |-> getModel(v)]
    /\ UNCHANGED gatewayVars

clampCall ==
    /\ ret = NoCall
    /\ \E a \in ClampInputs :
          ret' = [op |-> "clamp", args |-> a, val |-> Return(clamp(a[1], a[2], a[3]))]
    /\ UNCHANGED gatewayVars

getPaintColorCall ==
    /\ ret = NoCall
    /\ \E v \in PaintVehicles :
          ret' = [op |-> "getPaintColor", args |-> <<v>>, val |-> getPaintColor(v)]
    /\ UNCHANGED gatewayVars

-----------------------------------------------------------------------------
(* Request gateway: values                                                 *)

\* var portal, and a value of process.env.TESLAJS_SERVER
portal == "https://owner-api.teslamotors.com"

envServer == "http://127.0.0.1:3000"

\* var streamingPortal, and a value of process.env.TESLAJS_STREAMING
streamingPortal == "https://streaming.vn.teslamotors.com/stream"

envStreaming == "http://127.0.0.1:3000/stream"

\* the argument of a base-URI setter: a string (possibly empty) or undefined (absent)
UriArg(s) == [t |-> "string", s |-> s]

UndefinedUri == [t |-> "undefined", s |-> ""]

NotCalled == [t |-> "not called", s |-> ""]

\* options.values: absent, or an array of column names
UndefinedValues == [t |-> "undefined", a |-> << >>]

ArrayValues(a) == [t |-> "array", a |-> a]

\* the base URIs at start-up: the defaults, or the overrides of the environment
StartUpURIs == {<<portal, streamingPortal>>, <<envServer, envStreaming>>}

\* first argument of a callback: null, a string, or an Error object
NullErr == [t |-> "null", s |-> ""]

StrErr(s) == [t |-> "string", s |-> s]

ErrorObj(s) == [t |-> "Error", s |-> s]

\* JS truthiness of such a value
Truthy(e) == ~(e.t \in {"null", "undefined"}) /\ ~(e.t = "string" /\ e.s = "")

\* a response body as the transport parsed it; a field holding "undefined" is absent
NullBody == [t |-> "null", id |-> "undefined", id_s |-> "undefined"]

UndefinedBody == [t |-> "undefined", id |-> "undefined", id_s |-> "undefined"]

ObjectBody(id, id_s) == [t |-> "object", id |-> id, id_s |-> id_s]

NoResponseObj == [t |-> "undefined", statusCode |-> 0, statusMessage |-> ""]

ResponseObj(code, msg) == [t |-> "object", statusCode |-> code, statusMessage |-> msg]

\* what the transport hands the response handler: (error, response, body)
Outcome(e, r, b) == [error |-> e, response |-> r, body |-> b]

NoResponse == Outcome(NullErr, NoResponseObj, UndefinedBody)

NoException == [t |-> "none", s |-> ""]

CallbackException == ErrorObj("thrown by the caller's callback")

\* Number.prototype.toString for integers
Digit(d) ==
    CASE d = 0 -> "0" [] d = 1 -> "1" [] d = 2 -> "2" [] d = 3 -> "3" [] d = 4 -> "4"
      [] d = 5 -> "5" [] d = 6 -> "6" [] d = 7 -> "7" [] d = 8 -> "8" [] d = 9 -> "9"

RECURSIVE NatToString(_)
NatToString(n) == IF n < 10 THEN Digit(n) ELSE NatToString(n \div 10) \o Digit(n % 10)

NumberToString(v) ==
    CASE v.t = "number" -> IF v.n < 0 THEN "-" \o NatToString(-v.n) ELSE NatToString(v.n)
      [] v.t = "NaN" -> "NaN"
      [] v.t = "undefined" -> "undefined"

\* a payload object: its own properties in insertion order, [k |-> key, v |-> value];
\* NoPayload is an argument that is undefined or null
NoPayload == [t |-> "undefined", kv |-> << >>]

Payload(kv) == [t |-> "object", kv |-> kv]

\* values of a payload other than numbers: strings and nested objects
StrVal(s) == [t |-> "string", s |-> s]

ObjVal(kv) == [t |-> "object", kv |-> kv]

\* String(v), as URLSearchParams converts the value of a property
ValueToString(v) ==
    CASE v.t = "string" -> v.s
      [] v.t = "object" -> "[object Object]"
      [] OTHER -> NumberToString(v)

\* application/x-www-form-urlencoded serialisation of the strings the model uses:
\* letters, digits, "-", "_" and "." are kept, a space becomes "+", the rest is escaped
FormEncode(s) ==
    CASE s = "[object Object]" -> "%5Bobject+Object%5D"
      [] s = "text/plain" -> "text%2Fplain"
      [] OTHER -> s

\* new URLSearchParams(body).toString(): "k1=v1&k2=v2", values converted to strings
RECURSIVE JoinParams(_)
JoinParams(kv) ==
    IF kv = << >> THEN ""
    ELSE LET first == kv[1].k \o "=" \o FormEncode(ValueToString(kv[1].v))
         IN  IF Len(kv) = 1 THEN first ELSE first \o "&" \o JoinParams(Tail(kv))

URLSearchParams(body) == IF body.t = "object" THEN JoinParams(body.kv) ELSE ""

-----------------------------------------------------------------------------
(* Request gateway: the callback and the response handlers                 *)

\* the caller's callback: absent (the do-nothing default is used), one that returns,
\* or one that throws when it is handed a result (a falsy error) to process
Callbacks == {"absent", "returns", "throwsOnResult"}

CallbackThrows(cb, err) == cb = "throwsOnResult" /\ ~Truthy(err)

Invocation(err, body) == [err |-> err, body |-> body]

\* the effect of a response handler: the callback invocations it made, the exception
\* that escaped it, and the vehicleID it stored in the options bag ("unchanged" if none)
Effect(log, exc, vehicleID) == [log |-> log, raised |-> exc, vehicleID |-> vehicleID]

\* return callback(err, body), outside any try block
Deliver(cb, err, body) ==
    Effect(<<Invocation(err, body)>>,
           IF CallbackThrows(cb, err) THEN CallbackException ELSE NoException,
           "unchanged")

\* try { callback(null, body) } catch (e) { callback(e, null) }
TryDeliver(cb, body, vehicleID) ==
    IF CallbackThrows(cb, NullErr)
    THEN Effect(<<Invocation(NullErr, body), Invocation(CallbackException, NullBody)>>,
                IF CallbackThrows(cb, CallbackException) THEN CallbackException
                ELSE NoException,
                vehicleID)
    ELSE Effect(<<Invocation(NullErr, body)>>, NoException, vehicleID)

\* mutant of get_commandHandler: the error of a non-200 response is the reason phrase
get_commandHandlerStatusMessage(cb, o) ==
    IF Truthy(o.error) THEN Deliver(cb, o.error, NullBody)
    ELSE IF o.response.t # "object"
         THEN Effect(<< >>, ErrorObj("TypeError"), "unchanged")
    ELSE IF o.response.statusCode # 200
         THEN Deliver(cb, StrErr(o.response.statusMessage), NullBody)
    ELSE TryDeliver(cb, o.body, "unchanged")

\* function (error, response, body) of get_command, lines 527-552
get_commandHandler(cb, o) ==
    IF Truthy(o.error) THEN Deliver(cb, o.error, NullBody)
    ELSE IF o.response.t # "object"
         THEN Effect(<< >>, ErrorObj("TypeError"), "unchanged")   \* response.statusCode
    ELSE IF o.response.statusCode # 200
         THEN Deliver(cb, StrErr("Error response: "
                                 \o NumberToString(Num(o.response.statusCode))), NullBody)
    ELSE TryDeliver(cb, o.body, "unchanged")

\* mutant of post_commandHandler: the status is inspected before the transport error
post_commandHandlerStatusFirst(cb, o) ==
    IF o.response.t # "object"
    THEN Effect(<< >>, ErrorObj("TypeError"), "unchanged")   \* response.statusCode
    ELSE IF o.response.statusCode # 200
         THEN Deliver(cb, StrErr("Error response: "
                                 \o NumberToString(Num(o.response.statusCode))), NullBody)
    ELSE IF Truthy(o.error) THEN Deliver(cb, o.error, NullBody)
    ELSE TryDeliver(cb, o.body, "unchanged")

\* function (error, response, body) of post_command, lines 588-613
post_commandHandler(cb, o) ==
    IF Truthy(o.error) THEN Deliver(cb, o.error, NullBody)
    ELSE IF o.response.t # "object"
         THEN Effect(<< >>, ErrorObj("TypeError"), "unchanged")   \* response.statusCode
    ELSE IF o.response.statusCode # 200
         THEN Deliver(cb, StrErr("Error response: "
                                 \o NumberToString(Num(o.response.statusCode))), NullBody)
    ELSE TryDeliver(cb, o.body, "unchanged")

\* mutant of vehicleHandler: body.id is left as the transport delivered it
vehicleHandlerKeepsId(cb, o) ==
    IF Truthy(o.error) THEN Deliver(cb, o.error, NullBody)
    ELSE IF o.response.t # "object"
         THEN Effect(<< >>, ErrorObj("TypeError"), "unchanged")
    ELSE IF o.response.statusCode # 200
         THEN Deliver(cb, StrErr(o.response.statusMessage), NullBody)
    ELSE IF o.body.t # "object"
         THEN Deliver(cb, ErrorObj("TypeError"), NullBody)
    ELSE TryDeliver(cb, o.body, o.body.id_s)

\* mutant of vehicleHandler: the post-processing is outside the try block
vehicleHandlerNoTry(cb, o) ==
    IF Truthy(o.error) THEN Deliver(cb, o.error, NullBody)
    ELSE IF o.response.t # "object"
         THEN Effect(<< >>, ErrorObj("TypeError"), "unchanged")
    ELSE IF o.response.statusCode # 200
         THEN Deliver(cb, StrErr(o.response.statusMessage), NullBody)
    ELSE IF o.body.t # "object"
         THEN Effect(<< >>, ErrorObj("TypeError"), "unchanged")
    ELSE TryDeliver(cb, [o.body EXCEPT !.id = o.body.id_s], o.body.id_s)

\* mutant of vehicleHandler: options.vehicleID is not written
vehicleHandlerNoOptions(cb, o) ==
    IF Truthy(o.error) THEN Deliver(cb, o.error, NullBody)
    ELSE IF o.response.t # "object"
         THEN Effect(<< >>, ErrorObj("TypeError"), "unchanged")
    ELSE IF o.response.statusCode # 200
         THEN Deliver(cb, StrErr(o.response.statusMessage), NullBody)
    ELSE IF o.body.t # "object"
         THEN Deliver(cb, ErrorObj("TypeError"), NullBody)
    ELSE TryDeliver(cb, [o.body EXCEPT !.id = o.body.id_s], "unchanged")

\* function (error, response, body) of vehicle, lines 415-440
vehicleHandler(cb, o) ==
    IF Truthy(o.error) THEN Deliver(cb, o.error, NullBody)
    ELSE IF o.response.t # "object"
         THEN Effect(<< >>, ErrorObj("TypeError"), "unchanged")   \* response.statusCode
    ELSE IF o.response.statusCode # 200
         THEN Deliver(cb, StrErr(o.response.statusMessage), NullBody)
    ELSE IF o.body.t # "object"
         \* body.id = body.id_s throws inside the try block; the catch hands e over
         THEN Deliver(cb, ErrorObj("TypeError"), NullBody)
    ELSE TryDeliver(cb, [o.body EXCEPT !.id = o.body.id_s], o.body.id_s)

\* function (error, response, body) of vehicles, lines 471-494
vehiclesHandler(cb, o) ==
    IF Truthy(o.error) THEN Deliver(cb, o.error, NullBody)
    ELSE IF o.response.t # "object"
         THEN Effect(<< >>, ErrorObj("TypeError"), "unchanged")   \* response.statusCode
    ELSE IF o.response.statusCode # 200
         THEN Deliver(cb, StrErr(o.response.statusMessage), NullBody)
    ELSE TryDeliver(cb, o.body, "unchanged")

-----------------------------------------------------------------------------
(* Promise.denodeify: the Async forms                                      *)

\* a call made in callback style has no promise
NoPromise == [state |-> "none", value |-> NullErr, settles |-> 0]

PendingPromise == [state |-> "pending", value |-> NullErr, settles |-> 0]

\* the callback denodeify appends: function (err, res) { if (err) reject(err);
\* else resolve(res) }; a promise keeps its first settlement. log holds the
\* invocations of that callback; settles counts them.
denodeifySettle(log) ==
    IF log = << >> THEN PendingPromise
    ELSE IF Truthy(log[1].err)
         THEN [state |-> "rejected", value |-> log[1].err, settles |-> Len(log)]
         ELSE [state |-> "fulfilled", value |-> log[1].body, settles |-> Len(log)]

-----------------------------------------------------------------------------
(* Request gateway: the calls                                              *)

MaxCalls == 2

MaxCmdCalls == 1

CHARGE_STORAGE == 50

CHARGE_RANGE == 100

MIN_TEMP == 15

MAX_TEMP == 28

\* what the transport can hand a response handler
TransportErrors == {ErrorObj("ECONNREFUSED")}

Bodies == {ObjectBody("1492", "1492931337154343"), NullBody, UndefinedBody}

\* status code and reason phrase (which HTTP allows to be empty) of a non-200 response
StatusLines == {<<404, "Not Found">>, <<404, "">>}

Outcomes ==
    {Outcome(e, NoResponseObj, UndefinedBody) : e \in TransportErrors}
    \cup {Outcome(NullErr, ResponseObj(200, "OK"), b) : b \in Bodies}
    \cup {Outcome(NullErr, ResponseObj(l[1], l[2]), ObjectBody("undefined", "undefined")) :
             l \in StatusLines}

\* request(req, handler): the call is recorded with its request and awaits its response
Issue(fn, args, op, cb, req) ==
    /\ calls' = Append(calls, [fn |-> fn, args |-> args, op |-> op, cb |-> cb])
    /\ requests' = Append(requests, req)
    /\ responses' = Append(responses, NoResponse)
    /\ cbLog' = Append(cbLog, << >>)
    /\ raised' = Append(raised, NoException)
    /\ sent' = Append(sent, 1)
    /\ promises' = Append(promises, IF cb = "promise" THEN PendingPromise ELSE NoPromise)
    /\ UNCHANGED <<ret, streams, samples, configVars, options>>

\* mutant of Complete: one callback slot is shared by the calls in flight, so the
\* result is handed to every pending call
CompleteShared(op, i, o, e) ==
    /\ calls[i].op = op
    /\ sent[i] > 0
    /\ responses[i] = NoResponse
    /\ responses' = [responses EXCEPT ![i] = o]
    /\ cbLog' = [k \in 1..Len(cbLog) |->
                    IF responses[k] = NoResponse THEN e.log ELSE cbLog[k]]
    /\ raised' = [raised EXCEPT ![i] = e.raised]
    /\ options' = IF e.vehicleID = "unchanged" THEN options
                  ELSE [options EXCEPT !.vehicleID = e.vehicleID]
    /\ promises' = [promises EXCEPT ![i] = IF calls[i].cb = "promise"
                                            THEN denodeifySettle(e.log) ELSE @]
    /\ UNCHANGED <<ret, streams, samples, configVars, calls, requests, sent>>

\* mutant of Complete: a failed attempt is sent again instead of being reported
CompleteRetry(op, i, o, e) ==
    /\ calls[i].op = op
    /\ responses[i] = NoResponse
    /\ IF Truthy(o.error) \/ o.response.statusCode # 200
       THEN /\ sent' = [sent EXCEPT ![i] = @ + 1]
            /\ UNCHANGED <<responses, cbLog, raised, options, promises>>
       ELSE /\ responses' = [responses EXCEPT ![i] = o]
            /\ cbLog' = [cbLog EXCEPT ![i] = e.log]
            /\ raised' = [raised EXCEPT ![i] = e.raised]
            /\ options' = IF e.vehicleID = "unchanged" THEN options
                          ELSE [options EXCEPT !.vehicleID = e.vehicleID]
            /\ promises' = [promises EXCEPT ![i] = IF calls[i].cb = "promise"
                                                    THEN denodeifySettle(e.log) ELSE @]
            /\ UNCHANGED sent
    /\ UNCHANGED <<ret, streams, samples, configVars, calls, requests>>

\* the transport completes the pending call i of the path op with the outcome o, and
\* the response handler has the effect e
Complete(op, i, o, e) ==
    /\ calls[i].op = op
    /\ sent[i] > 0
    /\ responses[i] = NoResponse
    /\ responses' = [responses EXCEPT ![i] = o]
    /\ cbLog' = [cbLog EXCEPT ![i] = e.log]
    /\ raised' = [raised EXCEPT ![i] = e.raised]
    /\ options' = IF e.vehicleID = "unchanged" THEN options
                  ELSE [options EXCEPT !.vehicleID = e.vehicleID]
    /\ promises' = [promises EXCEPT ![i] = IF calls[i].cb = "promise"
                                            THEN denodeifySettle(e.log) ELSE @]
    /\ UNCHANGED <<ret, streams, samples, configVars, calls, requests, sent>>

NoBody == [t |-> "absent", kv |-> << >>]

\* var req of get_command
get_commandRequest(command) ==
    [method |-> "GET", url |-> portalBaseURI \o command, body |-> NoBody]

\* var cmd of post_command: the payload in the query string and as the body
post_commandRequest(command, body) ==
    [method |-> "GET",
     url    |-> portalBaseURI \o command \o "?" \o URLSearchParams(body),
     body   |-> IF body.t = "object" THEN body ELSE [t |-> "null", kv |-> << >>]]

GetCommands == {"vehicle_data"}

PostCommands == {<<"honk_horn", NoPayload>>,
                 <<"set_sentry_mode", Payload(<<[k |-> "on", v |-> Num(1)]>>)>>}

get_command ==
    \E command \in GetCommands, cb \in Callbacks :
        /\ Len(calls) < MaxCalls
        /\ Issue("get_command", <<command>>, "get_command", cb, get_commandRequest(command))

post_command ==
    \E c \in PostCommands, cb \in Callbacks :
        /\ Len(calls) < MaxCalls
        /\ Issue("post_command", c, "post_command", cb, post_commandRequest(c[1], c[2]))

\* var req of vehicle
vehicleRequest == [method |-> "GET", url |-> portalBaseURI \o "vehicles", body |-> NoBody]

\* var req of vehicles
vehiclesRequest == [method |-> "GET", url |-> portalBaseURI \o "vehicle_data", body |-> NoBody]

vehicle ==
    \E cb \in Callbacks :
        /\ Len(calls) < MaxCalls
        /\ Issue("vehicle", << >>, "vehicle", cb, vehicleRequest)

vehicles ==
    \E cb \in Callbacks :
        /\ Len(calls) < MaxCalls
        /\ Issue("vehicles", << >>, "vehicles", cb, vehiclesRequest)

get_commandResponse ==
    \E i \in 1..Len(calls), o \in Outcomes :
        Complete("get_command", i, o, get_commandHandler(calls[i].cb, o))

post_commandResponse ==
    \E i \in 1..Len(calls), o \in Outcomes :
        Complete("post_command", i, o, post_commandHandler(calls[i].cb, o))

vehicleResponse ==
    \E i \in 1..Len(calls), o \in Outcomes :
        Complete("vehicle", i, o, vehicleHandler(calls[i].cb, o))

vehiclesResponse ==
    \E i \in 1..Len(calls), o \in Outcomes :
        Complete("vehicles", i, o, vehiclesHandler(calls[i].cb, o))

\* a body that is a string: what the transport hands over when the text is not JSON
StringBody == [t |-> "string", id |-> "undefined", id_s |-> "undefined"]

\* status 200 with a body that is not an object
MalformedOutcomes ==
    {Outcome(NullErr, ResponseObj(200, "OK"), b) : b \in {NullBody, UndefinedBody, StringBody}}

\* vehicle answered with status 200 and a body that is not an object
vehicleResponseMalformed ==
    \E i \in 1..Len(calls), o \in MalformedOutcomes :
        Complete("vehicle", i, o, vehicleHandler(calls[i].cb, o))

-----------------------------------------------------------------------------
(* Command wrappers that clamp their arguments                             *)

Amounts == {Num(n) : n \in {30, 49, 50, 75, 100, 101, 150}}

DriverTemps == {Num(n) : n \in {10, 15, 20, 28, 30}}

PassTemps == {Num(n) : n \in {0, 10, 15, 20, 28, 30}} \cup {Undefined}

\* mutant of setChargeLimitPayload: the amount is sent as given
setChargeLimitPayloadUnclamped(amt) ==
    Payload(<<[k |-> "percent", v |-> amt]>>)

setChargeLimitPayload(amt) ==
    Payload(<<[k |-> "percent", v |-> clamp(amt, Num(CHARGE_STORAGE), Num(CHARGE_RANGE))]>>)

setChargeLimit ==
    \E amt \in Amounts, cb \in Callbacks :
        /\ Len(calls) < MaxCmdCalls
        /\ Issue("setChargeLimit", <<amt>>, "post_command", cb,
                 post_commandRequest("set_charge_limit", setChargeLimitPayload(amt)))

setTempsPayload(driver, pass) ==
    LET pass1 == IF JsNot(pass) THEN driver ELSE pass
    IN  Payload(<<[k |-> "driver_temp", v |-> clamp(driver, Num(MIN_TEMP), Num(MAX_TEMP))],
                  [k |-> "passenger_temp", v |-> clamp(pass1, Num(MIN_TEMP), Num(MAX_TEMP))]>>)

setTemps ==
    \E driver \in DriverTemps, pass \in PassTemps, cb \in Callbacks :
        /\ Len(calls) < MaxCmdCalls
        /\ Issue("setTemps", <<driver, pass>>, "post_command", cb,
                 post_commandRequest("set_temps", setTempsPayload(driver, pass)))

-----------------------------------------------------------------------------
(* Command wrappers with a payload: seatHeater, navigationRequest          *)

MaxNavCalls == 2

Subjects == {"Home", "Work"}

Texts == {"Main-Street-1"}

Locales == {"en-US"}

\* values of Date.now()
Clock == {1000}

HeaterArgs == {<<0, 3>>, <<1, 0>>}

seatHeaterPayload(heater, level) ==
    Payload(<<[k |-> "heater", v |-> Num(heater)], [k |-> "level", v |-> Num(level)]>>)

seatHeater ==
    \E a \in HeaterArgs, cb \in Callbacks :
        /\ Len(calls) < MaxNavCalls
        /\ Issue("seatHeater", a, "post_command", cb,
                 post_commandRequest("remote_seat_heater_request",
                                     seatHeaterPayload(a[1], a[2])))

\* var req of navigationRequest
navigationRequestPayload(subject, text, locale, now) ==
    Payload(<<[k |-> "type", v |-> StrVal("share_ext_content_raw")],
              [k |-> "value",
               v |-> ObjVal(<<[k |-> "android.intent.ACTION",
                               v |-> StrVal("android.intent.action.SEND")],
                              [k |-> "android.intent.TYPE", v |-> StrVal("text/plain")],
                              [k |-> "android.intent.extra.SUBJECT", v |-> StrVal(subject)],
                              [k |-> "android.intent.extra.TEXT", v |-> StrVal(text)]>>)],
              [k |-> "locale", v |-> StrVal(locale)],
              [k |-> "timestamp_ms", v |-> Num(now)]>>)

navigationRequest ==
    \E subject \in Subjects, text \in Texts, locale \in Locales, now \in Clock,
       cb \in Callbacks :
        /\ Len(calls) < MaxNavCalls
        /\ Issue("navigationRequest", <<subject, text, locale>>, "post_command", cb,
                 post_commandRequest("navigation_request",
                                     navigationRequestPayload(subject, text, locale, now)))

-----------------------------------------------------------------------------
(* Authentication: refreshToken, logout                                    *)

MaxAuthCalls == 2

c_id == "e4a9949fcfa04068f59abb5a658f2bac0a3428e4652315490b659d5ab3f35a9e"

c_sec == "c75f14bbadc8bee3a7594412c31416f8300256d7668ea7e6e7f06727bfb9d220"

\* the refresh_token argument: empty, absent or a token
RefreshTokens == {Str(""), UndefinedStr, Str("refA")}

AuthTokens == {Str("tokA")}

\* the body of an auth response as the transport parsed it
TokenBody(access, refresh) ==
    [t |-> "object", access_token |-> access, refresh_token |-> refresh]

UndefinedTokenBody ==
    [t |-> "undefined", access_token |-> UndefinedStr, refresh_token |-> UndefinedStr]

\* JSON.stringify(body) for the bodies the model uses
JSONstringify(body) ==
    IF body.t = "undefined" THEN UndefinedStr
    ELSE IF body.access_token.t = "undefined" THEN Str("{\"error\":\"invalid_grant\"}")
    ELSE Str("{\"access_token\":\"" \o body.access_token.s
             \o "\",\"refresh_token\":\"" \o body.refresh_token.s \o "\"}")

AuthOutcomes ==
    {Outcome(e, NoResponseObj, UndefinedTokenBody) : e \in TransportErrors}
    \cup {Outcome(NullErr, ResponseObj(200, "OK"), TokenBody(Str("accB"), Str("refB"))),
          Outcome(NullErr, ResponseObj(200, "OK"), UndefinedTokenBody),
          Outcome(NullErr, ResponseObj(401, "Unauthorized"),
                  TokenBody(UndefinedStr, UndefinedStr))}

\* a call that returns without a request: its callback invocations are already made
Return0(fn, args, op, cb, log) ==
    /\ calls' = Append(calls, [fn |-> fn, args |-> args, op |-> op, cb |-> cb])
    /\ requests' = Append(requests, [method |-> "none", url |-> "", body |-> NoBody])
    /\ responses' = Append(responses, NoResponse)
    /\ cbLog' = Append(cbLog, log)
    /\ raised' = Append(raised, NoException)
    /\ sent' = Append(sent, 0)
    /\ promises' = Append(promises, IF cb = "promise" THEN denodeifySettle(log)
                                    ELSE NoPromise)
    /\ UNCHANGED <<ret, streams, samples, configVars, options>>

\* var req of refreshToken
refreshTokenRequest(refresh_token) ==
    [method |-> "GET",
     url    |-> portalBaseURI \o "/oauth/token",
     body   |-> Payload(<<[k |-> "grant_type", v |-> StrVal("refresh_token")],
                          [k |-> "client_id", v |-> StrVal(c_id)],
                          [k |-> "client_secret", v |-> StrVal(c_sec)],
                          [k |-> "refresh_token", v |-> refresh_token]>>)]

\* mutant of refreshToken: the request is made whatever the refresh_token
refreshTokenUnchecked ==
    \E refresh_token \in RefreshTokens, cb \in Callbacks :
        /\ Len(calls) < MaxAuthCalls
        /\ Issue("refreshToken", <<refresh_token>>, "refreshToken", cb,
                 refreshTokenRequest(refresh_token))

refreshToken ==
    \E refresh_token \in RefreshTokens, cb \in Callbacks :
        /\ Len(calls) < MaxAuthCalls
        /\ IF ~Truthy(refresh_token)
           THEN Return0("refreshToken", <<refresh_token>>, "refreshToken", cb,
                        <<Invocation(StrErr("refreshToken() requires a refresh_token"),
                                     NullBody)>>)
           ELSE Issue("refreshToken", <<refresh_token>>, "refreshToken", cb,
                      refreshTokenRequest(refresh_token))

\* the result object refreshToken hands its callback
refreshTokenResult(o) ==
    [t |-> "object", error |-> o.error, response |-> o.response,
     body |-> JSONstringify(o.body),
     authToken |-> o.body.access_token, refreshToken |-> o.body.refresh_token]

\* the response handler of refreshToken: the argument body.access_token is evaluated
\* before the callback is called, and throws a TypeError when body is undefined
refreshTokenHandler(cb, o) ==
    IF o.body.t = "undefined"
    THEN Effect(<< >>, ErrorObj("TypeError"), "unchanged")
    ELSE Deliver(cb, o.error, refreshTokenResult(o))

refreshTokenResponse ==
    \E i \in 1..Len(calls), o \in AuthOutcomes :
        Complete("refreshToken", i, o, refreshTokenHandler(calls[i].cb, o))

logoutRequest(authToken) ==
    [method |-> "GET",
     url    |-> portalBaseURI \o "/oauth/revoke",
     body   |-> NoBody]

logout ==
    \E authToken \in AuthTokens, cb \in Callbacks :
        /\ Len(calls) < MaxAuthCalls
        /\ Issue("logout", <<authToken>>, "logout", cb, logoutRequest(authToken))

\* the result object logout hands its callback
logoutResult(o) ==
    [t |-> "object", error |-> o.error, response |-> o.response,
     body |-> JSONstringify(o.body)]

\* the response handler of logout
logoutHandler(cb, o) == Deliver(cb, o.error, logoutResult(o))

logoutResponse ==
    \E i \in 1..Len(calls), o \in AuthOutcomes :
        Complete("logout", i, o, logoutHandler(calls[i].cb, o))

-----------------------------------------------------------------------------
(* Promise variants: Promise.denodeify of the callback forms               *)

MaxAsyncCalls == 2

\* the callback denodeify passes: it settles the promise and never throws
get_commandAsync ==
    \E command \in GetCommands :
        /\ Len(calls) < MaxAsyncCalls
        /\ Issue("get_commandAsync", <<command>>, "get_command", "promise",
                 get_commandRequest(command))

post_commandAsync ==
    \E c \in PostCommands :
        /\ Len(calls) < MaxAsyncCalls
        /\ Issue("post_commandAsync", c, "post_command", "promise",
                 post_commandRequest(c[1], c[2]))

vehicleAsync ==
    /\ Len(calls) < MaxAsyncCalls
    /\ Issue("vehicleAsync", << >>, "vehicle", "promise", vehicleRequest)

vehiclesAsync ==
    /\ Len(calls) < MaxAsyncCalls
    /\ Issue("vehiclesAsync", << >>, "vehicles", "promise", vehiclesRequest)

\* post_command(options, "honk_horn", null, callback)
honkHornAsync ==
    /\ Len(calls) < MaxAsyncCalls
    /\ Issue("honkHornAsync", << >>, "post_command", "promise",
             post_commandRequest("honk_horn", NoPayload))

-----------------------------------------------------------------------------
(* Base URIs: setters, getters; startStreaming                             *)

MaxStreams == 2

\* the uri argument of a setter: empty, absent or a URI
UriArgs == {UriArg(""), UndefinedUri, UriArg("http://localhost:3000")}

\* mutant of setPortalBaseURI: an empty or absent uri leaves the base URI as it is
setPortalBaseURIKeepsOnEmpty ==
    \E uri \in UriArgs :
        /\ portalBaseURI' = IF ~Truthy(uri) THEN portalBaseURI ELSE uri.s
        /\ uriArgs' = [uriArgs EXCEPT !.portal = uri]
        /\ UNCHANGED <<ret, streams, samples, streamingBaseURI, calls, requests,
                       responses, cbLog, raised, options, sent, promises>>

\* mutant of setPortalBaseURI: the requests in flight are moved to the new base URI
setPortalBaseURIRetargets ==
    \E uri \in UriArgs :
        /\ portalBaseURI' = IF ~Truthy(uri) THEN portal ELSE uri.s
        /\ uriArgs' = [uriArgs EXCEPT !.portal = uri]
        /\ requests' = [i \in 1..Len(requests) |->
                           IF responses[i] = NoResponse /\ calls[i].op = "get_command"
                           THEN [requests[i] EXCEPT !.url = portalBaseURI' \o calls[i].args[1]]
                           ELSE requests[i]]
        /\ UNCHANGED <<ret, streams, samples, streamingBaseURI, calls, responses,
                       cbLog, raised, options, sent, promises>>

setPortalBaseURI ==
    \E uri \in UriArgs :
        /\ portalBaseURI' = IF ~Truthy(uri) THEN portal ELSE uri.s
        /\ uriArgs' = [uriArgs EXCEPT !.portal = uri]
        /\ UNCHANGED <<ret, streams, samples, streamingBaseURI, calls, requests,
                       responses, cbLog, raised, options, sent, promises>>

getPortalBaseURI ==
    /\ ret' = [op |-> "getPortalBaseURI", args |-> << >>, val |-> Return(Str(portalBaseURI))]
    /\ UNCHANGED gatewayVars

setStreamingBaseURI ==
    \E uri \in UriArgs :
        /\ streamingBaseURI' = IF ~Truthy(uri) THEN streamingPortal ELSE uri.s
        /\ uriArgs' = [uriArgs EXCEPT !.streaming = uri]
        /\ UNCHANGED <<ret, streams, samples, portalBaseURI, calls, requests,
                       responses, cbLog, raised, options, sent, promises>>

getStreamingBaseURI ==
    /\ ret' = [op |-> "getStreamingBaseURI", args |-> << >>,
               val |-> Return(Str(streamingBaseURI))]
    /\ UNCHANGED gatewayVars

streamingColumns ==
    <<"elevation", "est_heading", "est_lat", "est_lng", "est_range", "heading",
      "odometer", "power", "range", "shift_state", "speed", "soc">>

\* options.values as the caller set it: absent, or an array of column names
ValuesArgs == {UndefinedValues, ArrayValues(<<"speed", "soc">>)}

StreamVehicleIds == {"321"}

\* Array.prototype.join(",")
RECURSIVE join(_)
join(a) ==
    IF a = << >> THEN ""
    ELSE IF Len(a) = 1 THEN a[1]
    ELSE a[1] \o "," \o join(Tail(a))

\* options.values || exports.streamingColumns
valuesOrDefault(values) ==
    IF values.t = "undefined" THEN ArrayValues(streamingColumns) ELSE values

\* var req of startStreaming
startStreamingRequest(vehicle_id, values) ==
    [method |-> "GET",
     url    |-> streamingBaseURI \o "/" \o vehicle_id \o "/?values=" \o join(values.a),
     body   |-> NoBody]

\* the onDataCb argument: absent, or a function that returns
Sinks == {"absent", "returns"}

\* a stream just started: no chunk has arrived
NewStream(onDataCb) == [onDataCb |-> onDataCb, chunks |-> << >>, sinkLog |-> << >>]

\* the call is made with the options bag holding vehicle_id and values as given
startStreaming ==
    \E vehicle_id \in StreamVehicleIds, values \in ValuesArgs, cb \in Callbacks,
       onDataCb \in Sinks :
        /\ Len(calls) < MaxStreams
        /\ streams' = (Len(calls) + 1 :> NewStream(onDataCb)) @@ streams
        /\ calls' = Append(calls, [fn |-> "startStreaming", args |-> <<vehicle_id, values>>,
                                   op |-> "startStreaming", cb |-> cb])
        /\ options' = [options EXCEPT !.values = valuesOrDefault(values)]
        /\ requests' = Append(requests,
                              startStreamingRequest(vehicle_id, valuesOrDefault(values)))
        /\ responses' = Append(responses, NoResponse)
        /\ cbLog' = Append(cbLog, << >>)
        /\ raised' = Append(raised, NoException)
        /\ sent' = Append(sent, 1)
        /\ promises' = Append(promises, NoPromise)
        /\ UNCHANGED <<ret, samples, configVars>>

MaxStreamCalls == 1

MaxChunks == 3

\* an inbound chunk: a Buffer of bytes
Buffer(bytes) == [t |-> "Buffer", bytes |-> bytes]

Chunks == {Buffer(<<49, 44>>), Buffer(<<50>>)}

\* the character of a byte, for the bytes the model uses
fromCharCode(b) == CASE b = 44 -> "," [] b = 49 -> "1" [] b = 50 -> "2"

\* data.toString(): the bytes of the Buffer decoded to a string
RECURSIVE toString(_)
toString(bytes) ==
    IF bytes = << >> THEN "" ELSE fromCharCode(bytes[1]) \o toString(Tail(bytes))

\* mutant of startStreamingData: the sink is handed the latest chunk ahead of the others
startStreamingDataLatestFirst ==
    \E i \in DOMAIN streams, data \in Chunks :
        /\ responses[i] = NoResponse
        /\ Len(streams[i].chunks) < MaxChunks
        /\ streams' = [streams EXCEPT
                          ![i].chunks = Append(@, data),
                          ![i].sinkLog = IF streams[i].onDataCb = "absent" THEN @
                                         ELSE <<toString(data.bytes)>> \o @]
        /\ UNCHANGED <<ret, samples, configVars, calls, requests, responses, cbLog, raised,
                       options, sent, promises>>

\* .on('data', function (data) { onDataCb(data.toString()) }): a chunk arrives on an
\* open stream; sinkLog holds the invocations of the caller's sink
startStreamingData ==
    \E i \in DOMAIN streams, data \in Chunks :
        /\ responses[i] = NoResponse
        /\ Len(streams[i].chunks) < MaxChunks
        /\ streams' = [streams EXCEPT
                          ![i].chunks = Append(@, data),
                          ![i].sinkLog = IF streams[i].onDataCb = "absent" THEN @
                                         ELSE Append(@, toString(data.bytes))]
        /\ UNCHANGED <<ret, samples, configVars, calls, requests, responses, cbLog, raised,
                       options, sent, promises>>

\* how a stream ends: a transport error, or the response with the text received
StreamOutcomes ==
    {Outcome(e, NoResponseObj, UndefinedBody) : e \in TransportErrors}
    \cup {Outcome(NullErr, ResponseObj(200, "OK"), StringBody)}

\* request(req, callback): the caller's callback is the response handler itself
startStreamingHandler(cb, o) == Deliver(cb, o.error, o.body)

startStreamingResponse ==
    \E i \in 1..Len(calls), o \in StreamOutcomes :
        Complete("startStreaming", i, o, startStreamingHandler(calls[i].cb, o))

-----------------------------------------------------------------------------
(* SampleFramework.run (samples/sampleFramework.js)                        *)

MaxRuns == 2

\* the main argument of SampleFramework: absent, a function that returns, one that throws
Mains == {"absent", "returns", "throws"}

\* process.env.VIN: set or not
EnvVINs == {Str("5YJSA1E26JF000001"), UndefinedStr}

\* var options = {} of run, and options after the callback has filled it in
EmptyOptions == [vehicleID |-> "undefined", vehicle_id |-> "undefined", tokens |-> "undefined"]

FilledOptions == [vehicleID |-> "123", vehicle_id |-> "123", tokens |-> ""]

NewSample(main, env) ==
    [main |-> main, env |-> env, options |-> EmptyOptions, mainLog |-> << >>]

\* the body of the vehicles response: the fields run reads (state, vin,
\* vehicle_state.vehicle_name), each a string or undefined
SampleVehicle(state, vin, vehicle_name) ==
    [t |-> "object", id |-> "undefined", id_s |-> "undefined",
     state |-> state, vin |-> vin, vehicle_name |-> vehicle_name]

\* String.prototype.toUpperCase for the states the model uses
toUpperCase(s) ==
    CASE s = "offline" -> "OFFLINE"
      [] s = "Offline" -> "OFFLINE"
      [] s = "online" -> "ONLINE"
      [] OTHER -> s

\* the result of one invocation of run's callback: the framework afterwards and the
\* exception thrown
Ran(sample, threw) == [sample |-> sample, threw |-> threw]

\* mutant of runCallback: the state of the vehicle is not inspected
runCallbackAnyState(sample, err, result) ==
    LET filled == [sample EXCEPT !.options = FilledOptions]
    IN  IF Truthy(err) THEN Ran(sample, NoException)
        ELSE IF result.t # "object" THEN Ran(filled, ErrorObj("TypeError"))
        ELSE IF getModel(VehicleObject(result.vin, UndefinedStr)).threw
             THEN Ran(filled, ErrorObj("TypeError"))
        ELSE IF sample.env.t = "undefined" \/ result.vehicle_name.t = "undefined"
             THEN Ran(filled, ErrorObj("TypeError"))
        ELSE IF sample.main = "absent" THEN Ran(filled, NoException)
        ELSE Ran([filled EXCEPT !.mainLog = Append(@, filled.options)],
                 IF sample.main = "throws" THEN CallbackException ELSE NoException)

\* function (err, vehicles) of run (result is its vehicles argument), lines 35-57
runCallback(sample, err, result) ==
    LET filled == [sample EXCEPT !.options = FilledOptions]
    IN  IF Truthy(err) THEN Ran(sample, NoException)
        ELSE IF result.t # "object"
             THEN Ran(filled, ErrorObj("TypeError"))                 \* vehicle.state
        ELSE IF /\ Truthy(result.state)
                /\ toUpperCase(result.state.s) = "OFFLINE"
             THEN Ran(filled, NoException)
        ELSE IF getModel(VehicleObject(result.vin, UndefinedStr)).threw
             THEN Ran(filled, ErrorObj("TypeError"))
        ELSE IF sample.env.t = "undefined" \/ result.vehicle_name.t = "undefined"
             THEN Ran(filled, ErrorObj("TypeError"))                 \* x.toString()
        ELSE IF sample.main = "absent" THEN Ran(filled, NoException)
        ELSE Ran([filled EXCEPT !.mainLog = Append(@, filled.options)],
                 IF sample.main = "throws" THEN CallbackException ELSE NoException)

\* what the response handler of vehicles does with run's callback: the invocations,
\* the exception that escapes, and the framework afterwards
RunEffect(log, exc, sample) == [log |-> log, raised |-> exc, sample |-> sample]

\* function (error, response, body) of vehicles, lines 471-494, with run's callback
runVehiclesHandler(sample, o) ==
    IF Truthy(o.error)
    THEN RunEffect(<<Invocation(o.error, NullBody)>>,
                   runCallback(sample, o.error, NullBody).threw,
                   runCallback(sample, o.error, NullBody).sample)
    ELSE IF o.response.statusCode # 200
         THEN LET r == runCallback(sample, StrErr(o.response.statusMessage), NullBody)
              IN  RunEffect(<<Invocation(StrErr(o.response.statusMessage), NullBody)>>,
                            r.threw, r.sample)
    ELSE LET r == runCallback(sample, NullErr, o.body)
         IN  IF r.threw = NoException
             THEN RunEffect(<<Invocation(NullErr, o.body)>>, NoException, r.sample)
             ELSE LET c == runCallback(r.sample, r.threw, NullBody)
                  IN  RunEffect(<<Invocation(NullErr, o.body), Invocation(r.threw, NullBody)>>,
                                c.threw, c.sample)

SampleStates == {UndefinedStr, Str("online"), Str("offline"), Str("OFFLINE"), Str("Offline")}

SampleBodies ==
    {SampleVehicle(state, Str(VinOf("3", "B", "L", 11)), Str("Nikola")) : state \in SampleStates}
    \cup {SampleVehicle(Str("online"), UndefinedStr, UndefinedStr)}

SampleOutcomes ==
    {Outcome(e, NoResponseObj, UndefinedBody) : e \in TransportErrors}
    \cup {Outcome(NullErr, ResponseObj(200, "OK"), b) :
             b \in SampleBodies \cup {NullBody}}
    \cup {Outcome(NullErr, ResponseObj(l[1], l[2]), NullBody) : l \in StatusLines}

\* this.run: tjs.vehicles(options, function (err, vehicles) {...})
run ==
    \E main \in Mains, env \in EnvVINs :
        /\ Len(calls) < MaxRuns
        /\ samples' = (Len(calls) + 1 :> NewSample(main, env)) @@ samples
        /\ calls' = Append(calls, [fn |-> "SampleFramework.run", args |-> <<main, env>>,
                                   op |-> "SampleFramework.run", cb |-> "run"])
        /\ requests' = Append(requests, vehiclesRequest)
        /\ responses' = Append(responses, NoResponse)
        /\ cbLog' = Append(cbLog, << >>)
        /\ raised' = Append(raised, NoException)
        /\ sent' = Append(sent, 1)
        /\ promises' = Append(promises, NoPromise)
        /\ UNCHANGED <<ret, streams, configVars, options>>

\* the transport completes the vehicles call of a run
runVehiclesResponse ==
    \E i \in DOMAIN samples, o \in SampleOutcomes :
        /\ responses[i] = NoResponse
        /\ responses' = [responses EXCEPT ![i] = o]
        /\ cbLog' = [cbLog EXCEPT ![i] = runVehiclesHandler(samples[i], o).log]
        /\ raised' = [raised EXCEPT ![i] = runVehiclesHandler(samples[i], o).raised]
        /\ samples' = [samples EXCEPT ![i] = runVehiclesHandler(samples[i], o).sample]
        /\ UNCHANGED <<ret, streams, configVars, calls, requests, sent, options, promises>>

\* get_command called with a callback that returns normally
get_commandReturning ==
    /\ get_command
    /\ calls'[Len(calls')].cb = "returns"

\* startStreaming called with a callback that returns normally
startStreamingReturning ==
    /\ startStreaming
    /\ calls'[Len(calls')].cb = "returns"

\* a single stream is started
startStreamingOnce ==
    /\ Len(calls) < MaxStreamCalls
    /\ startStreamingReturning

-----------------------------------------------------------------------------
(* Specifications                                                          *)

Init ==
    /\ ret = NoCall
    \* process.env.TESLAJS_SERVER || portal, process.env.TESLAJS_STREAMING || streamingPortal
    /\ \E u \in StartUpURIs : portalBaseURI = u[1] /\ streamingBaseURI = u[2]
    /\ calls = << >>
    /\ requests = << >>
    /\ responses = << >>
    /\ cbLog = << >>
    /\ raised = << >>
    /\ options = [vehicleID |-> "undefined", values |-> UndefinedValues]
    /\ sent = << >>
    /\ promises = << >>
    /\ uriArgs = [portal |-> NotCalled, streaming |-> NotCalled]
    /\ streams = << >>
    /\ samples = << >>

\* the request gateway: reads and commands, several calls in flight
Next ==
    \/ get_command
    \/ post_command
    \/ vehicle
    \/ vehicles
    \/ get_commandResponse
    \/ post_commandResponse
    \/ vehicleResponse
    \/ vehiclesResponse

Spec == Init /\ [][Next]_vars

\* the pure functions
NextPure ==
    \/ vinDecodeCall
    \/ getModelCall
    \/ clampCall
    \/ getPaintColorCall

SpecPure == Init /\ [][NextPure]_vars

\* the clamping command wrappers over the command path
NextCmd ==
    \/ setChargeLimit
    \/ setTemps
    \/ post_commandResponse

SpecCmd == Init /\ [][NextCmd]_vars

\* the command wrappers with flat and nested payloads
NextNav ==
    \/ seatHeater
    \/ navigationRequest
    \/ post_commandResponse

SpecNav == Init /\ [][NextNav]_vars

\* authentication
NextAuth ==
    \/ refreshToken
    \/ logout
    \/ refreshTokenResponse
    \/ logoutResponse

SpecAuth == Init /\ [][NextAuth]_vars

\* the promise variants of the request gateway
NextAsync ==
    \/ get_commandAsync
    \/ post_commandAsync
    \/ vehicleAsync
    \/ vehiclesAsync
    \/ honkHornAsync
    \/ get_commandResponse
    \/ post_commandResponse
    \/ vehicleResponse
    \/ vehiclesResponse

SpecAsync == Init /\ [][NextAsync]_vars

\* the base URIs and the requests addressed to them
NextUri ==
    \/ setPortalBaseURI
    \/ getPortalBaseURI
    \/ setStreamingBaseURI
    \/ getStreamingBaseURI
    \/ get_commandReturning
    \/ startStreamingReturning

SpecUri == Init /\ [][NextUri]_vars

\* vehicle() with every kind of response body
NextVehicle ==
    \/ vehicle
    \/ vehicleResponse
    \/ vehicleResponseMalformed

SpecVehicle == Init /\ [][NextVehicle]_vars

\* a stream and its inbound chunks
NextStream ==
    \/ startStreamingOnce
    \/ startStreamingData
    \/ startStreamingResponse

SpecStream == Init /\ [][NextStream]_vars

\* the sample framework
NextSample ==
    \/ run
    \/ runVehiclesResponse

SpecSample == Init /\ [][NextSample]_vars

\* the base-URI setters interleaved with requests in flight
NextFlight ==
    \/ setPortalBaseURI
    \/ setStreamingBaseURI
    \/ get_commandReturning
    \/ startStreamingReturning
    \/ get_commandResponse

SpecFlight == Init /\ [][NextFlight]_vars

-----------------------------------------------------------------------------
(* Properties of the identifier decoder and the helpers (SpecPure)         *)

\* the vin string of the vehicle object a call of vinDecode or getModel was given
HasVinArg(ops) ==
    /\ ret.op \in ops
    /\ ret.args[1].t = "object"
    /\ ret.args[1].vin.t = "string"
    /\ ret.args[1].vin.s # << >>

VinArg == ret.args[1].vin.s

\* C1: vinDecode returns exactly {carType: "Model S", awd: false, year: 2012} and
\* raises nothing when the vehicle is null or undefined, has no vin, or has an empty vin.
C1_AbsentVinGivesDefault ==
    (/\ ret.op = "vinDecode"
     /\ \/ ret.args[1].t \in {"null", "undefined"}
        \/ ret.args[1].vin.t = "undefined"
        \/ ret.args[1].vin.s = << >>)
    => /\ ~ret.val.threw
       /\ ret.val.value = [carType |-> "Model S", awd |-> FALSE,
                           year |-> [t |-> "number", n |-> 2012]]

C1_Witness ==
    /\ ret.op = "vinDecode"
    /\ ret.args[1].t = "object"
    /\ ret.args[1].vin = [t |-> "string", s |-> << >>]
    /\ ~ret.val.threw
    /\ ret.val.value.year.n = 2012

\* C2: for a vin with a character at 0-indexed position 3, vinDecode's carType, and
\* getModel's result, is Model S, Model 3, Model X or Model Y when that character is
\* 'S', '3', 'X' or 'Y', and Model S for every other character.
C2_ModelFamily ==
    (HasVinArg({"vinDecode", "getModel"}) /\ Len(VinArg) >= 4)
    => LET c == VinArg[4]
           family == IF c = "S" THEN "Model S"
                     ELSE IF c = "3" THEN "Model 3"
                     ELSE IF c = "X" THEN "Model X"
                     ELSE IF c = "Y" THEN "Model Y"
                     ELSE "Model S"
       IN  /\ ~ret.val.threw
           /\ ret.op = "vinDecode" => ret.val.value.carType = family
           /\ ret.op = "getModel" => ret.val.value = family

C2_Witness ==
    /\ HasVinArg({"getModel"})
    /\ Len(VinArg) >= 4
    /\ VinArg[4] = "Y"
    /\ ret.val.value = "Model Y"

\* C3: for a non-empty vin, vinDecode returns awd = true if and only if the character
\* at 0-indexed position 7 is '2', '4' or 'B'.
C3_AllWheelDrive ==
    HasVinArg({"vinDecode"})
    => /\ ~ret.val.threw
       /\ ret.val.value.awd = (Len(VinArg) >= 8 /\ VinArg[8] \in {"2", "4", "B"})

C3_Witness ==
    /\ HasVinArg({"vinDecode"})
    /\ Len(VinArg) >= 8
    /\ VinArg[8] = "B"
    /\ ret.val.value.awd

\* C4: for a vin with a character at 0-indexed position 9, the year is
\* 2010 + (its character code - the character code of 'A'), unbounded: 'A' gives
\* 2010, 'L' gives 2021, a character below 'A' gives a year below 2010.
C4_ModelYear ==
    (HasVinArg({"vinDecode"}) /\ Len(VinArg) >= 10)
    => LET c == VinArg[10]
           year == ret.val.value.year
       IN  /\ ~ret.val.threw
           /\ year.t = "number"
           /\ year.n = 2010 + (CharCode(c) - 65)
           /\ c = "A" => year.n = 2010
           /\ c = "L" => year.n = 2021
           /\ c \in {"0", "2", "3", "4", "5", "9"} => year.n < 2010

C4_Witness ==
    /\ HasVinArg({"vinDecode"})
    /\ Len(VinArg) >= 10
    /\ VinArg[10] = "9"
    /\ ret.val.value.year = [t |-> "number", n |-> 2002]

\* C5: for integers v and lo <= hi, clamp(v, lo, hi) is lo when v < lo, hi when
\* v > hi and v otherwise, so it lies in [lo, hi]; clamp(30,50,100) = 50,
\* clamp(150,50,100) = 100, clamp(75,50,100) = 75.
C5_ClampTwoSided ==
    (/\ ret.op = "clamp"
     /\ \A k \in 1..3 : ret.args[k].t = "number"
     /\ ret.args[2].n <= ret.args[3].n)
    => LET v  == ret.args[1].n
           lo == ret.args[2].n
           hi == ret.args[3].n
           r  == ret.val.value
       IN  /\ r.t = "number"
           /\ v < lo => r.n = lo
           /\ v > hi => r.n = hi
           /\ (lo <= v /\ v <= hi) => r.n = v
           /\ lo <= r.n /\ r.n <= hi
           /\ (lo = 50 /\ hi = 100 /\ v = 30) => r.n = 50
           /\ (lo = 50 /\ hi = 100 /\ v = 150) => r.n = 100
           /\ (lo = 50 /\ hi = 100 /\ v = 75) => r.n = 75

C5_Witness ==
    /\ ret.op = "clamp"
    /\ ret.args = <<[t |-> "number", n |-> 150], [t |-> "number", n |-> 50],
                    [t |-> "number", n |-> 100]>>
    /\ ret.val.value = [t |-> "number", n |-> 100]

\* the option-code string a call of getPaintColor was given
HasOptionCodesArg ==
    /\ ret.op = "getPaintColor"
    /\ ret.args[1].t = "object"
    /\ ret.args[1].option_codes.t = "string"

OptionCodesArg == ret.args[1].option_codes.s

\* the code occurs in s at (1-based) position i
OccursAt(s, i, code) == i + Len(code) - 1 <= Len(s) /\ SubSeq(s, i, i + Len(code) - 1) = code

\* a code of the colour table occurs in s at position i
KnownCodeAt(s, i) == \E e \in 1..Len(colors) : OccursAt(s, i, colors[e].code)

\* C8 as stated: getPaintColor returns "pearl white" for every option-code string that
\* contains PPSW, and "black" for every string that contains no recognised paint code.
C8_AnyPPSWIsPearlWhite ==
    HasOptionCodesArg
    => /\ ~ret.val.threw
       /\ (\E i \in 1..Len(OptionCodesArg) : OccursAt(OptionCodesArg, i, <<"P","P","S","W">>))
          => ret.val.value = "pearl white"
       /\ (\A i \in 1..Len(OptionCodesArg) : ~KnownCodeAt(OptionCodesArg, i))
          => ret.val.value = "black"

\* C8 amended: getPaintColor returns "pearl white" for every option-code string whose
\* leftmost recognised paint code is PPSW, and "black" for every string that contains
\* no recognised paint code.
C8_LeftmostPPSWIsPearlWhite ==
    HasOptionCodesArg
    => /\ ~ret.val.threw
       /\ (\E i \in 1..Len(OptionCodesArg) :
              /\ OccursAt(OptionCodesArg, i, <<"P","P","S","W">>)
              /\ \A j \in 1..(i - 1) : ~KnownCodeAt(OptionCodesArg, j))
          => ret.val.value = "pearl white"
       /\ (\A i \in 1..Len(OptionCodesArg) : ~KnownCodeAt(OptionCodesArg, i))
          => ret.val.value = "black"

C8_Witness ==
    /\ HasOptionCodesArg
    /\ OptionCodesArg = <<"P","P","S","W", ",", "P","B","S","B">>
    /\ ret.val.value = "pearl white"

-----------------------------------------------------------------------------
(* Properties of the clamping command wrappers (SpecCmd)                   *)

\* the two-sided clamp of an integer, stated independently of the code
Clamped(n, lo, hi) == IF n < lo THEN lo ELSE IF n > hi THEN hi ELSE n

\* the request of a command: base URI, then the command, "?" and the query string
CommandUrls(command, query) == {base \o command \o "?" \o query : base \in {portal, envServer}}

\* C6: for every amount given to setChargeLimit, the request targets set_charge_limit
\* with the payload {percent: clamp(amt, 50, 100)}; no request with a percent outside
\* 50..100 is ever sent.
C6_ChargeLimitClamped ==
    \A i \in 1..Len(calls) :
        calls[i].fn = "setChargeLimit"
        => LET percent == Clamped(calls[i].args[1].n, 50, 100)
           IN  /\ requests[i].url \in CommandUrls("set_charge_limit",
                                                  "percent=" \o NatToString(percent))
               /\ requests[i].body = [t |-> "object",
                                      kv |-> <<[k |-> "percent",
                                                v |-> [t |-> "number", n |-> percent]]>>]
               /\ requests[i].body.kv[1].v.n \in 50..100

C6_Witness ==
    \E i \in 1..Len(calls) :
        /\ calls[i].fn = "setChargeLimit"
        /\ calls[i].args[1].n = 150
        /\ requests[i].body.kv[1].v.n = 100
        /\ responses[i] # NoResponse

\* C7: for every driver and passenger temperature given to setTemps, the payload of
\* set_temps carries driver_temp = clamp(driver, 15, 28) and passenger_temp =
\* clamp(pass, 15, 28), each the clamp of its own argument; when pass is omitted,
\* passenger_temp is the clamped driver value.
C7_TempsClampedEach ==
    \A i \in 1..Len(calls) :
        calls[i].fn = "setTemps"
        => LET driver == calls[i].args[1]
               pass   == calls[i].args[2]
               kv     == requests[i].body.kv
           IN  /\ Len(kv) = 2
               /\ kv[1] = [k |-> "driver_temp",
                           v |-> [t |-> "number", n |-> Clamped(driver.n, 15, 28)]]
               /\ kv[2].k = "passenger_temp"
               /\ pass.t = "number"
                  => kv[2].v = [t |-> "number", n |-> Clamped(pass.n, 15, 28)]
               /\ pass.t = "undefined"
                  => kv[2].v = [t |-> "number", n |-> Clamped(driver.n, 15, 28)]

-----------------------------------------------------------------------------
(* Properties of the request gateway (Spec)                                *)

\* call i has received its response
Completed(i) == responses[i] # NoResponse

\* C9: for every read call (get_command, vehicle, vehicles) whose response has a
\* status other than 200, the callback receives a populated (non-empty) error and a
\* null body, and no exception is raised from within the call.
C9_ReadNon200PopulatedError ==
    \A i \in 1..Len(calls) :
        (/\ calls[i].op \in {"get_command", "vehicle", "vehicles"}
         /\ Completed(i)
         /\ responses[i].error.t = "null"
         /\ responses[i].response.statusCode # 200)
        => /\ Len(cbLog[i]) = 1
           /\ cbLog[i][1].err.t \notin {"null", "undefined"}
           /\ cbLog[i][1].err # [t |-> "string", s |-> ""]
           /\ cbLog[i][1].body.t = "null"
           /\ raised[i].t = "none"

\* C10: for every read or command call (get_command, post_command, vehicle, vehicles),
\* when the transport reports an error the callback receives that same error value as
\* its first argument and null as the body, and the status and body are not inspected.
C10_TransportErrorUnchanged ==
    \A i \in 1..Len(calls) :
        (/\ Completed(i)
         /\ responses[i].error.t \notin {"null", "undefined"})
        => /\ cbLog[i] = <<[err |-> responses[i].error, body |-> NullBody]>>
           /\ raised[i].t = "none"

C10_Witness ==
    \E i \in 1..Len(calls) :
        /\ calls[i].op = "post_command"
        /\ Completed(i)
        /\ responses[i].error = [t |-> "Error", s |-> "ECONNREFUSED"]
        /\ responses[i].response.t = "undefined"
        /\ cbLog[i] = <<[err |-> [t |-> "Error", s |-> "ECONNREFUSED"], body |-> NullBody]>>

\* call i received a response with status 200 and no transport error
Status200(i) ==
    /\ Completed(i)
    /\ responses[i].error.t = "null"
    /\ responses[i].response.t = "object"
    /\ responses[i].response.statusCode = 200

\* C11 as stated: for every read call (get_command, vehicles, vehicle) that receives
\* status 200, the callback receives a null error and the parsed body exactly as the
\* transport delivered it.
C11_ReadBodyUnchanged ==
    \A i \in 1..Len(calls) :
        (calls[i].op \in {"get_command", "vehicles", "vehicle"} /\ Status200(i))
        => /\ Len(cbLog[i]) >= 1
           /\ cbLog[i][1].err.t = "null"
           /\ cbLog[i][1].body = responses[i].body

\* C11 amended: for every call of get_command or vehicles that receives status 200,
\* the callback first receives a null error and the parsed body exactly as delivered;
\* vehicle, for a 200 response whose body is an object, hands over a null error and
\* that body with its id overwritten by its id_s, every other field unchanged.
C11_ReadBodyUnchangedButVehicleId ==
    \A i \in 1..Len(calls) :
        Status200(i)
        => /\ calls[i].op \in {"get_command", "vehicles"}
              => /\ Len(cbLog[i]) >= 1
                 /\ cbLog[i][1].err.t = "null"
                 /\ cbLog[i][1].body = responses[i].body
           /\ (calls[i].op = "vehicle" /\ responses[i].body.t = "object")
              => /\ Len(cbLog[i]) >= 1
                 /\ cbLog[i][1].err.t = "null"
                 /\ cbLog[i][1].body.t = "object"
                 /\ cbLog[i][1].body.id = responses[i].body.id_s
                 /\ cbLog[i][1].body.id_s = responses[i].body.id_s

C11_Witness ==
    \E i \in 1..Len(calls) :
        /\ calls[i].op = "vehicle"
        /\ Status200(i)
        /\ responses[i].body = [t |-> "object", id |-> "1492", id_s |-> "1492931337154343"]
        /\ cbLog[i][1].body.id = "1492931337154343"

\* C13: the command path maps transport results as the read path does: for every
\* transport outcome, post_command hands its callback the same (error, body) pairs as
\* get_command hands its callback for that outcome.
C13_CommandPathMapsLikeReadPath ==
    \A i \in 1..Len(calls), j \in 1..Len(calls) :
        (/\ calls[i].op = "get_command"
         /\ calls[j].op = "post_command"
         /\ Completed(i) /\ Completed(j)
         /\ responses[i] = responses[j]
         /\ calls[i].cb = calls[j].cb)
        => /\ cbLog[i] = cbLog[j]
           /\ raised[i] = raised[j]

C13_Witness ==
    \E i \in 1..Len(calls), j \in 1..Len(calls) :
        /\ calls[i].op = "get_command"
        /\ calls[j].op = "post_command"
        /\ responses[i] = responses[j]
        /\ Completed(i)
        /\ responses[i].response.t = "object"
        /\ responses[i].response.statusCode = 404
        /\ cbLog[i] = cbLog[j]
        /\ cbLog[j][1].err = [t |-> "string", s |-> "Error response: 404"]

\* C20: for every call of get_command, post_command, vehicle or vehicles, the callback
\* is invoked at most once, whatever the transport outcome and also when the callback
\* itself raises while handling a successful result.
C20_CallbackAtMostOnce ==
    \A i \in 1..Len(calls) : Len(cbLog[i]) <= 1

\* C15: every call issues at most one HTTP request: after a transport failure, a
\* non-200 response or a failure while post-processing the body, no second request is
\* sent for that call.
C15_AtMostOneRequestPerCall ==
    \A i \in 1..Len(calls) : sent[i] <= 1

C15_Witness ==
    \E i \in 1..Len(calls), j \in 1..Len(calls) :
        /\ calls[i].op = "vehicle"
        /\ Status200(i)
        /\ responses[i].body.t = "null"
        /\ cbLog[i][1].err = [t |-> "Error", s |-> "TypeError"]
        /\ Completed(j)
        /\ responses[j].error.t = "Error"
        /\ sent[i] = 1
        /\ sent[j] = 1

-----------------------------------------------------------------------------
(* Properties of the command payloads (SpecNav)                            *)

\* C12: every key/value pair of the payload given to post_command, through any
\* wrapper and also inside a nested object such as navigationRequest's, is reflected
\* in the query string of the request URL and in the request body: the flat pairs
\* appear as key=value, the body is the payload, and requests to the same base URI
\* whose nested pairs differ have different query strings.
C12_PayloadInQueryAndBody ==
    /\ \A i \in 1..Len(calls) :
          calls[i].fn = "seatHeater"
          => /\ requests[i].url \in
                   CommandUrls("remote_seat_heater_request",
                               "heater=" \o NatToString(calls[i].args[1])
                               \o "&level=" \o NatToString(calls[i].args[2]))
             /\ requests[i].body.kv =
                   <<[k |-> "heater", v |-> [t |-> "number", n |-> calls[i].args[1]]],
                     [k |-> "level", v |-> [t |-> "number", n |-> calls[i].args[2]]]>>
    /\ \A i \in 1..Len(calls) :
          calls[i].fn = "navigationRequest"
          => /\ requests[i].body.kv[2].k = "value"
             /\ requests[i].body.kv[2].v.kv[3] =
                   [k |-> "android.intent.extra.SUBJECT",
                    v |-> [t |-> "string", s |-> calls[i].args[1]]]
             /\ requests[i].body.kv[2].v.kv[4] =
                   [k |-> "android.intent.extra.TEXT",
                    v |-> [t |-> "string", s |-> calls[i].args[2]]]
    /\ \A i \in 1..Len(calls), j \in 1..Len(calls) :
          (/\ calls[i].fn = "navigationRequest"
           /\ calls[j].fn = "navigationRequest"
           /\ calls[i].args # calls[j].args)
          => requests[i].url # requests[j].url

-----------------------------------------------------------------------------
(* Properties of refreshToken and logout (SpecAuth)                        *)

TransportFailed(i) == Completed(i) /\ Truthy(responses[i].error)

\* C17: for every refreshToken or logout call on which the transport reports an
\* error, the caller's callback is invoked exactly once, with that error unchanged as
\* its first argument, and no exception is raised.
C17_AuthTransportErrorDelivered ==
    \A i \in 1..Len(calls) :
        (calls[i].op \in {"refreshToken", "logout"} /\ TransportFailed(i))
        => /\ Len(cbLog[i]) = 1
           /\ cbLog[i][1].err = responses[i].error
           /\ raised[i] = NoException

\* C18: every refreshToken call with an empty or absent refresh_token has invoked the
\* callback exactly once, with the error "refreshToken() requires a refresh_token"
\* and a null result, and no HTTP request is ever made for it.
C18_MissingRefreshTokenRejected ==
    \A i \in 1..Len(calls) :
        (calls[i].fn = "refreshToken" /\ ~Truthy(calls[i].args[1]))
        => /\ Len(cbLog[i]) = 1
           /\ cbLog[i][1].err = [t |-> "string", s |-> "refreshToken() requires a refresh_token"]
           /\ cbLog[i][1].body.t = "null"
           /\ sent[i] = 0
           /\ requests[i].method = "none"
           /\ responses[i] = NoResponse
           /\ raised[i] = NoException

C18_Witness ==
    \E i \in 1..Len(calls), j \in 1..Len(calls) :
        /\ calls[i].fn = "refreshToken" /\ calls[i].args[1].t = "undefined"
        /\ calls[j].fn = "refreshToken" /\ calls[j].args[1].t = "string"
        /\ calls[j].args[1].s = ""
        /\ Len(cbLog[i]) = 1 /\ Len(cbLog[j]) = 1

Failed(i) ==
    \/ sent[i] = 0 /\ cbLog[i] # << >> /\ Truthy(cbLog[i][1].err)
    \/ TransportFailed(i)
    \/ Completed(i) /\ responses[i].response.t = "object"
                    /\ responses[i].response.statusCode # 200

\* C14: for every call made without a callback (get_command, post_command, vehicle,
\* vehicles, refreshToken, logout or a wrapper) that fails, by a transport error or a
\* status other than 200, no exception is raised, neither during the call nor when
\* the response arrives.
C14_NoCallbackFailureSilent ==
    \A i \in 1..Len(calls) :
        (calls[i].cb = "absent" /\ Failed(i)) => raised[i] = NoException

-----------------------------------------------------------------------------
(* Properties of the promise variants (SpecAsync)                          *)

\* what the callback form of the path op does with the outcome o
CallbackForm(op, o) ==
    CASE op = "get_command" -> get_commandHandler("returns", o)
      [] op = "post_command" -> post_commandHandler("returns", o)
      [] op = "vehicle" -> vehicleHandler("returns", o)
      [] op = "vehicles" -> vehiclesHandler("returns", o)

FailureOutcome(o) ==
    \/ Truthy(o.error)
    \/ o.response.t = "object" /\ o.response.statusCode # 200

\* C19: every promise variant whose response has arrived is settled exactly once; it
\* is rejected with the error of the callback form when the outcome is a transport
\* failure or a status other than 200, and fulfilled with the body of the callback
\* form when the callback form delivers a null error.
C19_PromiseAgreesWithCallback ==
    \A i \in 1..Len(calls) :
        (calls[i].cb = "promise" /\ Completed(i))
        => LET first == CallbackForm(calls[i].op, responses[i]).log[1]
           IN  /\ promises[i].settles = 1
               /\ FailureOutcome(responses[i])
                  => /\ promises[i].state = "rejected"
                     /\ promises[i].value = first.err
               /\ first.err.t = "null"
                  => /\ promises[i].state = "fulfilled"
                     /\ promises[i].value = first.body

-----------------------------------------------------------------------------
(* Properties of the base URIs (SpecUri)                                   *)

\* the base URI a setter called with uri selects
Selected(uri, default) == IF uri.t = "string" /\ uri.s # "" THEN uri.s ELSE default

\* C16: in every step, once a setter has been called the base URI is the argument of
\* its most recent call if that was non-empty and the built-in default otherwise; a
\* getter returns that URI; and a request started in the step is addressed to it.
C16_BaseURIFollowsSetter ==
    [][/\ uriArgs'.portal # NotCalled
          => portalBaseURI' = Selected(uriArgs'.portal, "https://owner-api.teslamotors.com")
       /\ uriArgs'.streaming # NotCalled
          => streamingBaseURI' = Selected(uriArgs'.streaming,
                                          "https://streaming.vn.teslamotors.com/stream")
       /\ (ret' # ret /\ ret'.op = "getPortalBaseURI" /\ uriArgs.portal # NotCalled)
          => ret'.val = [threw |-> FALSE,
                         value |-> [t |-> "string",
                                    s |-> Selected(uriArgs.portal,
                                                   "https://owner-api.teslamotors.com")]]
       /\ (ret' # ret /\ ret'.op = "getStreamingBaseURI" /\ uriArgs.streaming # NotCalled)
          => ret'.val = [threw |-> FALSE,
                         value |-> [t |-> "string",
                                    s |-> Selected(uriArgs.streaming,
                                                   "https://streaming.vn.teslamotors.com/stream")]]
       /\ Len(requests') > Len(requests)
          => LET i == Len(requests')
             IN  /\ (calls'[i].op = "get_command" /\ uriArgs.portal # NotCalled)
                    => requests'[i].url =
                          Selected(uriArgs.portal, "https://owner-api.teslamotors.com")
                          \o calls'[i].args[1]
                 /\ (calls'[i].op = "startStreaming" /\ uriArgs.streaming # NotCalled)
                    => requests'[i].url =
                          Selected(uriArgs.streaming,
                                   "https://streaming.vn.teslamotors.com/stream")
                          \o "/" \o calls'[i].args[1] \o "/?values="
                          \o (IF calls'[i].args[2].t = "undefined"
                              THEN "elevation,est_heading,est_lat,est_lng,est_range,heading,odometer,power,range,shift_state,speed,soc"
                              ELSE join(calls'[i].args[2].a))
      ]_vars

\* a request went to the override of the environment, the portal setter was then
\* called without a uri and the streaming setter with one, both getters' values are
\* the selected URIs, and the next requests went to the selected URIs
C16_Witness ==
    /\ Len(calls) = 2
    /\ uriArgs.portal = UndefinedUri
    /\ portalBaseURI = portal
    /\ uriArgs.streaming = UriArg("http://localhost:3000")
    /\ ret.op = "getPortalBaseURI" /\ ret.val = Return(Str(portal))
    /\ \E c \in GetCommands :
          /\ calls[1].op = "get_command" /\ requests[1].url = envServer \o c
          /\ calls[2].op = "get_command" /\ requests[2].url = portal \o c

-----------------------------------------------------------------------------
(* Properties of requests in flight (SpecFlight)                           *)

\* C21: in every step, the request of every call already made keeps its URL; a
\* request started in the step is addressed to the base URI in effect before the
\* step, which is the one the latest setter call selected; a step that changes a
\* base URI delivers nothing and changes no response; and the callback invocations
\* of a call that completes are those its own response gives, whatever the base URI
\* has become.
C21_SetterAffectsOnlyLaterCalls ==
    [][/\ \A i \in 1..Len(requests) : requests'[i] = requests[i]
       /\ Len(requests') > Len(requests)
          => LET i == Len(requests')
             IN  /\ calls'[i].op = "get_command"
                    => /\ requests'[i].url = portalBaseURI \o calls'[i].args[1]
                       /\ uriArgs.portal # NotCalled
                          => requests'[i].url =
                                Selected(uriArgs.portal, "https://owner-api.teslamotors.com")
                                \o calls'[i].args[1]
                 /\ calls'[i].op = "startStreaming"
                    => /\ requests'[i].url =
                             streamingBaseURI \o "/" \o calls'[i].args[1] \o "/?values="
                             \o join(options'.values.a)
                       /\ uriArgs.streaming # NotCalled
                          => requests'[i].url =
                                Selected(uriArgs.streaming,
                                         "https://streaming.vn.teslamotors.com/stream")
                                \o "/" \o calls'[i].args[1] \o "/?values="
                                \o join(options'.values.a)
       /\ (portalBaseURI' # portalBaseURI \/ streamingBaseURI' # streamingBaseURI)
          => /\ responses' = responses
             /\ cbLog' = cbLog
             /\ raised' = raised
       /\ \A i \in 1..Len(responses) :
             (responses[i] = NoResponse /\ responses'[i] # NoResponse)
             => /\ cbLog'[i] = get_commandHandler(calls[i].cb, responses'[i]).log
                /\ raised'[i] = NoException
      ]_vars

\* the base URI was changed while the first request, addressed to the override of the
\* environment, was in flight: it still is, at its original URL, and the second call
\* went to the new base URI and is answered
C21_Witness ==
    /\ Len(calls) = 2
    /\ portalBaseURI = "http://localhost:3000"
    /\ \E c \in GetCommands :
          /\ calls[1].op = "get_command" /\ requests[1].url = envServer \o c
          /\ calls[2].op = "get_command" /\ requests[2].url = "http://localhost:3000" \o c
    /\ responses[1] = NoResponse
    /\ Completed(2) /\ Len(cbLog[2]) = 1

-----------------------------------------------------------------------------
(* Properties of concurrent calls (Spec)                                   *)

\* C22: in every step and for every call made, a delivered result is never changed
\* by a later step; a call still in flight after the step has had no callback
\* invocation, whatever other calls have completed; and a call that completes in the
\* step gets a result fixed by its own response: its own transport error with a null
\* body, or (except for vehicle, which rewrites the id) a null error with its own body
\* on status 200, the same invocations as every completed call of the same operation
\* and callback with an equal response.
C22_OwnOutcomeOnly ==
    [][\A i \in 1..Len(calls) :
          /\ responses[i] # NoResponse
             => /\ responses'[i] = responses[i]
                /\ cbLog'[i] = cbLog[i]
          /\ (responses[i] = NoResponse /\ responses'[i] = NoResponse)
             => cbLog'[i] = << >>
          /\ (responses[i] = NoResponse /\ responses'[i] # NoResponse)
             => /\ Len(cbLog'[i]) >= 1
                /\ responses'[i].error.t \notin {"null", "undefined"}
                   => cbLog'[i] = <<[err |-> responses'[i].error, body |-> NullBody]>>
                /\ (/\ responses'[i].error.t = "null"
                    /\ responses'[i].response.statusCode = 200
                    /\ calls[i].op # "vehicle")
                   => cbLog'[i][1] = [err |-> [t |-> "null", s |-> ""],
                                      body |-> responses'[i].body]
                /\ \A j \in 1..Len(calls) :
                      (/\ calls[j].op = calls[i].op
                       /\ calls[j].cb = calls[i].cb
                       /\ responses'[j] = responses'[i])
                      => cbLog'[j] = cbLog'[i]
      ]_vars

\* two calls were in flight together and the second one made was answered first, with
\* a transport error; the first is still in flight and has had no callback invocation
C22_Witness ==
    /\ Len(calls) = 2
    /\ calls[1].op = "get_command" /\ calls[2].op = "post_command"
    /\ responses[1] = NoResponse /\ cbLog[1] = << >>
    /\ responses[2].error = [t |-> "Error", s |-> "ECONNREFUSED"]
    /\ cbLog[2] = <<[err |-> [t |-> "Error", s |-> "ECONNREFUSED"], body |-> NullBody]>>

-----------------------------------------------------------------------------
(* Properties of vehicle() (SpecVehicle, Spec)                             *)

\* C23: for every vehicle call answered with status 200 and a body that is not an
\* object (null, undefined, a string), the callback is invoked once, with the caught
\* error and a null body, no exception escapes, and one request was made.
C23_VehicleMalformedBodyCaught ==
    \A i \in 1..Len(calls) :
        (calls[i].op = "vehicle" /\ Status200(i) /\ responses[i].body.t # "object")
        => /\ cbLog[i] = <<[err |-> [t |-> "Error", s |-> "TypeError"], body |-> NullBody]>>
           /\ raised[i] = NoException
           /\ sent[i] = 1

C23_Witness ==
    \E i \in 1..Len(calls), j \in 1..Len(calls) :
        /\ calls[i].op = "vehicle" /\ Status200(i) /\ responses[i].body.t = "string"
        /\ calls[j].op = "vehicle" /\ Status200(j) /\ responses[j].body.t = "null"
        /\ calls[j].cb = "throwsOnResult"
        /\ Len(cbLog[i]) = 1 /\ Len(cbLog[j]) = 1

\* C24: in every step, when a vehicle call is answered with status 200 and an object
\* body, options.vehicleID becomes body.id_s and the callback is handed the body with
\* id equal to id_s (also when the callback then throws); in every other step, a
\* vehicle call answered with a transport failure or a status other than 200, and
\* every step of get_command, post_command and vehicles, leaves the options bag as it
\* was.
C24_OptionsWrittenOnlyByVehicleSuccess ==
    [][IF \E i \in 1..Len(calls) :
             /\ calls[i].op = "vehicle"
             /\ responses[i] = NoResponse
             /\ responses'[i].error.t = "null"
             /\ responses'[i].response.t = "object"
             /\ responses'[i].response.statusCode = 200
             /\ responses'[i].body.t = "object"
       THEN \E i \in 1..Len(calls) :
               /\ responses[i] = NoResponse /\ responses'[i] # NoResponse
               /\ options'.vehicleID = responses'[i].body.id_s
               /\ options'.values = options.values
               /\ cbLog'[i][1].err.t = "null"
               /\ cbLog'[i][1].body.id = responses'[i].body.id_s
               /\ cbLog'[i][1].body.id_s = responses'[i].body.id_s
       ELSE options' = options
      ]_vars

\* one vehicle call has failed and left the options bag alone, then another was
\* answered with status 200 and its id_s is in the options bag
C24_Witness ==
    /\ Len(calls) = 2
    /\ calls[1].op = "vehicle" /\ Completed(1) /\ responses[1].response.statusCode = 404
    /\ calls[2].op = "vehicle" /\ Status200(2)
    /\ responses[2].body = [t |-> "object", id |-> "1492", id_s |-> "1492931337154343"]
    /\ options.vehicleID = "1492931337154343"

-----------------------------------------------------------------------------
(* Properties of startStreaming (SpecStream)                               *)

\* the text of a chunk
ChunkText(data) ==
    CASE data.bytes = <<49, 44>> -> "1,"
      [] data.bytes = <<50>> -> "2"

\* C25: every startStreaming call has made one request, to streamingBaseURI + "/" +
\* vehicle_id + "/?values=" + the comma-joined columns, all twelve streamingColumns
\* when options.values was absent; the caller's data sink has been invoked once per
\* chunk received, in arrival order, with the text of that chunk; and without a sink
\* nothing is invoked and nothing is raised.
C25_StreamRequestAndSink ==
    \A i \in DOMAIN streams :
        /\ sent[i] = 1
        /\ requests[i].url =
              streamingBaseURI \o "/" \o calls[i].args[1] \o "/?values="
              \o (IF calls[i].args[2].t = "undefined"
                  THEN "elevation,est_heading,est_lat,est_lng,est_range,heading,odometer,power,range,shift_state,speed,soc"
                  ELSE "speed,soc")
        /\ streams[i].onDataCb = "returns"
           => /\ Len(streams[i].sinkLog) = Len(streams[i].chunks)
              /\ \A k \in 1..Len(streams[i].chunks) :
                    streams[i].sinkLog[k] = ChunkText(streams[i].chunks[k])
        /\ streams[i].onDataCb = "absent"
           => /\ streams[i].sinkLog = << >>
              /\ raised[i] = NoException

\* a stream started without options.values has received three chunks and handed
\* their texts to the sink in order
C25_Witness ==
    \E i \in DOMAIN streams :
        /\ calls[i].args[2].t = "undefined"
        /\ streams[i].onDataCb = "returns"
        /\ Len(streams[i].chunks) = 3
        /\ streams[i].sinkLog = <<"1,", "2", "1,">>

-----------------------------------------------------------------------------
(* Properties of the colour table (SpecPure)                               *)

\* the codes of the colour table and of the scan
TableCodes == {colors[e].code : e \in 1..Len(colors)}

ScanCodes == {paintRegex[k] : k \in 1..Len(paintRegex)}

\* getPaintColor returned the name of the leftmost known code of its argument
FirstMatchNamed ==
    HasOptionCodesArg
    => /\ ~ret.val.threw
       /\ \A i \in 1..Len(OptionCodesArg) :
             (/\ KnownCodeAt(OptionCodesArg, i)
              /\ \A j \in 1..(i - 1) : ~KnownCodeAt(OptionCodesArg, j))
             => \E e \in 1..Len(colors) :
                   /\ OccursAt(OptionCodesArg, i, colors[e].code)
                   /\ ret.val.value = colors[e].name

\* C26 as stated: the table holds 14 known codes of 4 characters, getPaintColor
\* returns the name mapped to the first code matched, and every code the scan can
\* match has an entry in the table.
C26_FirstMatchOverFourteenCodes ==
    /\ Cardinality(TableCodes) = 14
    /\ \A c \in TableCodes : Len(c) = 4
    /\ ScanCodes \subseteq TableCodes
    /\ FirstMatchNamed

\* C26 amended: the table holds 15 known codes of 4 characters, getPaintColor returns
\* the name mapped to the first code matched, and every code the scan can match has
\* an entry in the table.
C26_FirstMatchOverFifteenCodes ==
    /\ Cardinality(TableCodes) = 15
    /\ \A c \in TableCodes : Len(c) = 4
    /\ ScanCodes \subseteq TableCodes
    /\ FirstMatchNamed

C26_Witness ==
    /\ HasOptionCodesArg
    /\ OptionCodesArg = <<"P","M","T","G", ",", "P","P","S","W">>
    /\ ~ret.val.threw
    /\ ret.val.value = "metallic grey"

-----------------------------------------------------------------------------
(* Properties of vinDecode on short identifiers (SpecPure)                 *)

\* C27: for every non-empty vin of fewer than 10 characters vinDecode raises nothing,
\* carType is "Model S" when the vin has no position 3, awd is false when it has no
\* position 7, and the year returned is an integer.
C27_ShortVinLenient ==
    (HasVinArg({"vinDecode"}) /\ Len(VinArg) < 10)
    => /\ ~ret.val.threw
       /\ Len(VinArg) <= 3 => ret.val.value.carType = "Model S"
       /\ Len(VinArg) <= 7 => ret.val.value.awd = FALSE
       /\ ret.val.value.year.t = "number"

-----------------------------------------------------------------------------
(* Properties of SampleFramework.run (SpecSample)                          *)

OfflineStates == {"offline", "OFFLINE", "Offline"}

\* C28: for every run, main has been invoked at most once; if it has, the vehicles
\* call had first delivered a null error and a vehicle whose state is not "OFFLINE"
\* in any letter case, and the options main was handed had vehicleID and vehicle_id
\* set; and when the call failed (transport error or a status other than 200) or the
\* vehicle was offline, main has not been invoked.
C28_MainOnceAndOnlyOnline ==
    \A i \in DOMAIN samples :
        /\ Len(samples[i].mainLog) <= 1
        /\ Len(samples[i].mainLog) = 1
           => /\ Completed(i)
              /\ cbLog[i][1].err.t = "null"
              /\ cbLog[i][1].body.t = "object"
              /\ ~(/\ cbLog[i][1].body.state.t = "string"
                   /\ cbLog[i][1].body.state.s \in OfflineStates)
              /\ samples[i].mainLog[1].vehicleID = "123"
              /\ samples[i].mainLog[1].vehicle_id = "123"
        /\ (Completed(i) /\ FailureOutcome(responses[i]))
           => samples[i].mainLog = << >>
        /\ (/\ Completed(i)
            /\ responses[i].body.t = "object"
            /\ responses[i].body.state.t = "string"
            /\ responses[i].body.state.s \in OfflineStates)
           => samples[i].mainLog = << >>

\* one run found the vehicle online and invoked a main that threw, so that the
\* callback was invoked a second time, and main was invoked once; another run found
\* the vehicle offline and did not invoke main
C28_Witness ==
    \E i \in DOMAIN samples, j \in DOMAIN samples :
        /\ samples[i].main = "throws"
        /\ Len(cbLog[i]) = 2
        /\ Len(samples[i].mainLog) = 1
        /\ samples[j].main = "returns"
        /\ Completed(j)
        /\ responses[j].body.t = "object"
        /\ responses[j].body.state = [t |-> "string", s |-> "offline"]
        /\ samples[j].mainLog = << >>

====
